---------------------------- MODULE Spec2Model ----------------------------
(***************************************************************************)
(* A model of pyuwb (decargroup/uwb_interface): the field codec and the    *)
(* Packer of pyuwb/packing.py, and the frame scanner, the response table,  *)
(* the event queue and the callback dispatcher of pyuwb/uwbmodule.py, in   *)
(* the threaded and in the cooperative (single-threaded) scheduling model. *)
(*                                                                         *)
(* Bytes are the integers 0..255; a bytes object is a sequence of them.    *)
(* A message key is the bytes object of its three characters.              *)
(***************************************************************************)
EXTENDS Integers, Sequences, FiniteSets, TLC

(***************************************************************************)
(* Byte values the code names.                                             *)
(***************************************************************************)
SEP == 124
TERM == 13
LF == 10
CH_R == 82
CH_S == 83
CH_0 == 48
CH_9 == 57
CH_PLUS == 43
CH_MINUS == 45
CH_DOT == 46
CH_UNDERSCORE == 95
CH_SPACE == 32

Digit(n) == CH_0 + n

(***************************************************************************)
(* Python's bytes operations, as the code uses them.                       *)
(***************************************************************************)
\* s[n:] for n >= 0
Drop(s, n) == IF n >= Len(s) THEN << >> ELSE SubSeq(s, n + 1, Len(s))

\* s[:n] for n >= 0
Take(s, n) == IF n >= Len(s) THEN s ELSE SubSeq(s, 1, n)

\* s.find(bytes([b])): the 0-based index of the first b in s, or -1
Find(s, b) ==
    IF \E i \in 1..Len(s) : s[i] = b
    THEN (CHOOSE i \in 1..Len(s) : s[i] = b /\ \A j \in 1..(i - 1) : s[j] # b) - 1
    ELSE -1

(***************************************************************************)
(* Decoded field values.  Every value is a record of one shape, so that    *)
(* values of different field types can be compared: t is the field type,   *)
(* n the number of an Int, b the bytes of a String, a Float (the text that *)
(* float() accepted) or a Bytes, and the truth value of a Bool is n = 1.   *)
(***************************************************************************)
IntVal(n) == [t |-> "Int", n |-> n, b |-> << >>]
BoolVal(v) == [t |-> "Bool", n |-> IF v THEN 1 ELSE 0, b |-> << >>]
StrVal(s) == [t |-> "String", n |-> 0, b |-> s]
FloatVal(s) == [t |-> "Float", n |-> 0, b |-> s]
BytesVal(s) == [t |-> "Bytes", n |-> 0, b |-> s]

\* the outcome of a decode that raised
Raised == [ok |-> FALSE, val |-> IntVal(0), next |-> 0]
Decoded(v, nxt) == [ok |-> TRUE, val |-> v, next |-> nxt]

IsDigit(c) == c >= CH_0 /\ c <= CH_9
IsSpace(c) == c \in {CH_SPACE, 9, 10, 11, 12, 13}
IsAscii(s) == \A i \in 1..Len(s) : s[i] < 128

\* str.strip() as int() and float() apply it
RECURSIVE LStrip(_)
LStrip(s) == IF Len(s) > 0 /\ IsSpace(s[1]) THEN LStrip(Tail(s)) ELSE s
RECURSIVE RStrip(_)
RStrip(s) ==
    IF Len(s) > 0 /\ IsSpace(s[Len(s)]) THEN RStrip(SubSeq(s, 1, Len(s) - 1)) ELSE s
Strip(s) == RStrip(LStrip(s))

Unsigned(s) == IF Len(s) > 0 /\ s[1] \in {CH_PLUS, CH_MINUS} THEN Tail(s) ELSE s

\* digits, with single underscores between digits (PEP 515)
IsDigits(s) ==
    /\ Len(s) > 0
    /\ IsDigit(s[1]) /\ IsDigit(s[Len(s)])
    /\ \A i \in 1..Len(s) : IsDigit(s[i]) \/ s[i] = CH_UNDERSCORE
    /\ \A i \in 1..(Len(s) - 1) : ~(s[i] = CH_UNDERSCORE /\ s[i + 1] = CH_UNDERSCORE)

RECURSIVE DigitsValue(_)
DigitsValue(s) ==
    IF Len(s) = 0 THEN 0
    ELSE IF s[Len(s)] = CH_UNDERSCORE THEN DigitsValue(SubSeq(s, 1, Len(s) - 1))
    ELSE 10 * DigitsValue(SubSeq(s, 1, Len(s) - 1)) + (s[Len(s)] - CH_0)

\* int(text) of ASCII text: whether it parses, and its value
IsIntText(s) == IsAscii(s) /\ IsDigits(Unsigned(Strip(s)))
IntOfText(s) ==
    LET u == Strip(s)
    IN  IF Len(u) > 0 /\ u[1] = CH_MINUS
        THEN 0 - DigitsValue(Unsigned(u))
        ELSE DigitsValue(Unsigned(u))

\* float(text) of ASCII text in decimal point notation (no exponent, inf or nan):
\* digits with at most one point and at least one digit
IsFloatText(s) ==
    LET u == Unsigned(Strip(s))
        p == Find(u, CH_DOT)
    IN  /\ IsAscii(s)
        /\ IF p = -1 THEN IsDigits(u)
           ELSE /\ Len(u) > 1
                /\ (p = 0 \/ IsDigits(Take(u, p)))
                /\ (p = Len(u) - 1 \/ IsDigits(Drop(u, p + 1)))

(***************************************************************************)
(* The fields of packing.py.  unpack(msg, next_key_idx) returns the value  *)
(* and the index of the key character that follows the field.              *)
(***************************************************************************)
IntFieldUnpack(msg, next_key_idx) ==
    IF IsIntText(Take(msg, next_key_idx))
    THEN Decoded(IntVal(IntOfText(Take(msg, next_key_idx))), next_key_idx)
    ELSE Raised

\* bool(str) is True for every non-empty str
BoolFieldUnpack(msg, next_key_idx) ==
    IF next_key_idx # 1 \/ ~IsAscii(Take(msg, next_key_idx))
    THEN Raised
    ELSE Decoded(BoolVal(Len(Take(msg, next_key_idx)) > 0), next_key_idx)

StringFieldUnpack(msg, next_key_idx) ==
    IF IsAscii(Take(msg, next_key_idx))
    THEN Decoded(StrVal(Take(msg, next_key_idx)), next_key_idx)
    ELSE Raised

FloatFieldUnpack(msg, next_key_idx) ==
    IF IsFloatText(Take(msg, next_key_idx))
    THEN Decoded(FloatVal(Strip(Take(msg, next_key_idx))), next_key_idx)
    ELSE Raised

\* a variant of ByteFieldUnpack that ends the payload at the next key character
ByteFieldUnpackDelimited(msg, next_key_idx) ==
    IF next_key_idx < 2 THEN Raised
    ELSE Decoded(BytesVal(SubSeq(msg, 3, next_key_idx)), next_key_idx)

\* struct.unpack("<H", msg[:2]) raises unless msg[:2] is two bytes long
ByteFieldUnpack(msg, next_key_idx) ==
    IF Len(msg) < 2 THEN Raised
    ELSE LET fieldlen == msg[1] + 256 * msg[2]
         IN  Decoded(BytesVal(Take(Drop(msg, 2), fieldlen)), 2 + fieldlen)

FieldUnpack(field, msg, next_key_idx) ==
    CASE field = "Int" -> IntFieldUnpack(msg, next_key_idx)
      [] field = "Bool" -> BoolFieldUnpack(msg, next_key_idx)
      [] field = "String" -> StringFieldUnpack(msg, next_key_idx)
      [] field = "Float" -> FloatFieldUnpack(msg, next_key_idx)
      [] field = "Bytes" -> ByteFieldUnpack(msg, next_key_idx)

(***************************************************************************)
(* Packer                                                                  *)
(***************************************************************************)
\* get_next_key_char: the soonest separator or terminator; -1 stands for the
\* RuntimeError raised when there is neither
GetNextKeyChar(msg) ==
    LET next_sep == Find(msg, SEP)
        next_eol == Find(msg, TERM)
    IN  IF next_sep = -1 /\ next_eol = -1 THEN -1
        ELSE IF next_sep = -1 THEN next_eol
        ELSE IF next_eol = -1 THEN next_sep
        ELSE IF next_sep < next_eol THEN next_sep ELSE next_eol

UnpackRaised == [ok |-> FALSE, vals |-> << >>, end |-> 0]

\* the loop of Packer.unpack over field_types[i..], then the check of the
\* terminator, whose RuntimeError is built and not raised: only the index
\* og_msg[msg_end_idx] can raise (IndexError)
RECURSIVE UnpackFields(_, _, _, _, _, _)
UnpackFields(og_msg, msg, msg_end_idx, field_types, i, results) ==
    IF i > Len(field_types)
    THEN IF msg_end_idx >= Len(og_msg)
         THEN UnpackRaised
         ELSE [ok |-> TRUE, vals |-> results, end |-> msg_end_idx]
    ELSE LET msg1 == Drop(msg, 1)
             next_key_idx == GetNextKeyChar(msg1)
         IN  IF next_key_idx = -1 THEN UnpackRaised
             ELSE LET r == FieldUnpack(field_types[i], msg1, next_key_idx)
                  IN  IF ~r.ok THEN UnpackRaised
                      ELSE UnpackFields(og_msg, Drop(msg1, r.next),
                                        msg_end_idx + 1 + r.next, field_types,
                                        i + 1, Append(results, r.val))

\* Packer.unpack(msg, field_types): the values and the end index, or raised
Unpack(msg, field_types) ==
    IF Len(field_types) = 0
    THEN [ok |-> TRUE, vals |-> << >>, end |-> Find(msg, TERM)]
    ELSE UnpackFields(msg, msg, 0, field_types, 1, << >>)


(***************************************************************************)
(* The schema tables of UwbModule, keyed by the encoded message key.       *)
(***************************************************************************)
K_C00 == <<67, 48, 48>>
K_C01 == <<67, 48, 49>>
K_C02 == <<67, 48, 50>>
K_C03 == <<67, 48, 51>>
K_C04 == <<67, 48, 52>>
K_C05 == <<67, 48, 53>>
K_C06 == <<67, 48, 54>>
K_C07 == <<67, 48, 55>>
K_R00 == <<82, 48, 48>>
K_R01 == <<82, 48, 49>>
K_R02 == <<82, 48, 50>>
K_R03 == <<82, 48, 51>>
K_R04 == <<82, 48, 52>>
K_R05 == <<82, 48, 53>>
K_R06 == <<82, 48, 54>>
K_R07 == <<82, 48, 55>>
K_S01 == <<83, 48, 49>>
K_S05 == <<83, 48, 53>>
K_S06 == <<83, 48, 54>>

Rep(x, n) == [i \in 1..n |-> x]

c_format_dict ==
    (K_C00 :> << >>) @@ (K_C01 :> << >>) @@ (K_C02 :> << >>)
    @@ (K_C03 :> <<"Int", "String", "Bool", "Float", "Bytes">>)
    @@ (K_C04 :> <<"Bool">>)
    @@ (K_C05 :> <<"Int", "Bool", "Bool">>)
    @@ (K_C06 :> <<"Bytes">>)
    @@ (K_C07 :> << >>)

r_format_dict ==
    (K_R00 :> << >>)
    @@ (K_R01 :> <<"Int">>)
    @@ (K_R02 :> << >>)
    @@ (K_R03 :> <<"Int", "Int", "String", "Bool", "Float", "Bytes">>)
    @@ (K_R04 :> << >>)
    @@ (K_R05 :> <<"Int", "Float">> \o Rep("Int", 6) \o Rep("Float", 2))
    @@ (K_R06 :> << >>)
    @@ (K_R07 :> <<"Int">>)
    @@ (K_S01 :> Rep("Int", 11) \o Rep("Float", 5))
    @@ (K_S05 :> <<"Int", "Float">> \o Rep("Int", 6) \o Rep("Float", 2))
    @@ (K_S06 :> <<"Bytes">>)

(***************************************************************************)
(* The frame scanner: the while loop of _read_and_unpack.                  *)
(***************************************************************************)
\* the soonest of "R" or "S" in temp, or -1
NextMsgIdx(temp) ==
    LET next_r_idx == Find(temp, CH_R)
        next_s_idx == Find(temp, CH_S)
    IN  IF next_r_idx = -1 /\ next_s_idx = -1 THEN -1
        ELSE IF next_r_idx = -1 THEN next_s_idx
        ELSE IF next_s_idx = -1 THEN next_r_idx
        ELSE IF next_r_idx < next_s_idx THEN next_r_idx ELSE next_s_idx

NoFrame == [found |-> FALSE, key |-> << >>, vals |-> << >>, rest |-> << >>]

\* a variant of the scanning loop that ends at the first unpack that raises
RECURSIVE ScanNextAbort(_)
ScanNextAbort(temp) ==
    IF Len(temp) < 4 THEN NoFrame
    ELSE LET next_msg_idx == NextMsgIdx(temp)
         IN  IF next_msg_idx = -1 THEN NoFrame
             ELSE LET msg_key == Take(Drop(temp, next_msg_idx), 3)
                      temp1 == Drop(Drop(temp, next_msg_idx), 3)
                  IN  IF msg_key \in DOMAIN r_format_dict
                      THEN LET u == Unpack(temp1, r_format_dict[msg_key])
                           IN  IF u.ok
                               THEN [found |-> TRUE, key |-> msg_key,
                                     vals |-> u.vals,
                                     rest |-> Drop(temp1, u.end + 1)]
                               ELSE NoFrame
                      ELSE ScanNextAbort(temp1)

\* a variant of the scanning loop that takes a key that is not in the table
\* as the key of a frame without fields
RECURSIVE ScanNextAnyKey(_)
ScanNextAnyKey(temp) ==
    IF Len(temp) < 4 THEN NoFrame
    ELSE LET next_msg_idx == NextMsgIdx(temp)
         IN  IF next_msg_idx = -1 THEN NoFrame
             ELSE LET msg_key == Take(Drop(temp, next_msg_idx), 3)
                      temp1 == Drop(Drop(temp, next_msg_idx), 3)
                      u == Unpack(temp1, IF msg_key \in DOMAIN r_format_dict
                                         THEN r_format_dict[msg_key] ELSE << >>)
                  IN  IF u.ok
                      THEN [found |-> TRUE, key |-> msg_key, vals |-> u.vals,
                            rest |-> Drop(temp1, u.end + 1)]
                      ELSE ScanNextAnyKey(temp1)

\* The scanning loop run on temp up to the next frame that unpack accepts:
\* that frame and the buffer left after `temp = temp[end_idx + 1:]`, or
\* NoFrame when the loop ends first.  The iterations that find no frame
\* (an unknown key, a parse error) touch only the local temp.
RECURSIVE ScanNext(_)
ScanNext(temp) ==
    IF Len(temp) < 4 THEN NoFrame
    ELSE LET next_msg_idx == NextMsgIdx(temp)
         IN  IF next_msg_idx = -1 THEN NoFrame
             ELSE LET msg_key == Take(Drop(temp, next_msg_idx), 3)
                      temp1 == Drop(Drop(temp, next_msg_idx), 3)
                  IN  IF msg_key \in DOMAIN r_format_dict
                      THEN LET u == Unpack(temp1, r_format_dict[msg_key])
                           IN  IF u.ok
                               THEN [found |-> TRUE, key |-> msg_key,
                                     vals |-> u.vals,
                                     rest |-> Drop(temp1, u.end + 1)]
                               ELSE ScanNext(temp1)
                      ELSE ScanNext(temp1)

\* all the frames one _read_and_unpack of the chunk `out` parses, in order
RECURSIVE ScanAll(_)
ScanAll(out) ==
    LET f == ScanNext(out)
    IN  IF f.found
        THEN <<[key |-> f.key, vals |-> f.vals]>> \o ScanAll(f.rest)
        ELSE << >>


(***************************************************************************)
(* Packer.pack and the pack methods of the fields.                         *)
(***************************************************************************)
RECURSIVE NatToText(_)
NatToText(n) ==
    IF n < 10 THEN <<Digit(n)>> ELSE NatToText(n \div 10) \o <<Digit(n % 10)>>

\* str(value).encode()
IntToText(n) == IF n < 0 THEN <<CH_MINUS>> \o NatToText(0 - n) ELSE NatToText(n)

\* Floats the application passes, each a binary32 value: its text in decimal
\* notation and the four bytes of struct.pack("<f", value)
FloatTable ==
    << [text |-> <<CH_0, CH_DOT, CH_0>>, ieee |-> <<0, 0, 0, 0>>],
       [text |-> <<Digit(1), CH_DOT, CH_0>>, ieee |-> <<0, 0, 128, 63>>],
       [text |-> <<CH_0, CH_DOT, Digit(9), Digit(8), Digit(4), Digit(3), Digit(7), Digit(5)>>,
        ieee |-> <<0, 0, SEP, 63>>],
       [text |-> <<CH_0, CH_DOT, Digit(5), Digit(5), CH_0, Digit(7), Digit(8), Digit(1),
                   Digit(2), Digit(5)>>,
        ieee |-> <<0, 0, TERM, 63>>] >>

Float(i) == FloatVal(FloatTable[i].text)

\* struct.pack("<f", value)
FloatFieldPack(value) ==
    FloatTable[CHOOSE i \in 1..Len(FloatTable) : FloatTable[i].text = value.b].ieee

FieldPack(field, value) ==
    CASE field = "Int" -> IntToText(value.n)
      [] field = "Bool" -> IntToText(value.n)
      [] field = "String" -> value.b
      [] field = "Float" -> FloatFieldPack(value)
      [] field = "Bytes" -> <<Len(value.b) % 256, Len(value.b) \div 256>> \o value.b

RECURSIVE PackFields(_, _, _)
PackFields(field_values, field_types, i) ==
    IF i > Len(field_values) THEN << >>
    ELSE <<SEP>> \o FieldPack(field_types[i], field_values[i])
         \o PackFields(field_values, field_types, i + 1)

\* a variant of Pack that leaves out the separator before the first field
PackNoInitialSeparator(field_values, field_types) ==
    Tail(PackFields(field_values, field_types, 1) \o <<TERM>>)

Pack(field_values, field_types) ==
    PackFields(field_values, field_types, 1) \o <<TERM>>

(***************************************************************************)
(* What the device sends.  A chunk is what one _read returns: a sequence   *)
(* of items, each a well-formed frame of a key of the schema table (the    *)
(* key, the packed values, CR LF) or other bytes.                          *)
(***************************************************************************)
WellFormed(key, vals) ==
    [wf |-> TRUE, key |-> key, vals |-> vals,
     bytes |-> key \o Pack(vals, r_format_dict[key]) \o <<LF>>]

Other(bytes) == [wf |-> FALSE, key |-> << >>, vals |-> << >>, bytes |-> bytes]

ChunkTable ==
    << <<WellFormed(K_R02, << >>), WellFormed(K_R01, <<IntVal(7)>>)>>,
       <<WellFormed(K_R00, << >>)>>,
       <<WellFormed(K_R01, <<IntVal(4)>>), WellFormed(K_R01, <<IntVal(7)>>)>>,
       <<Other(K_R01 \o <<TERM, LF>>), WellFormed(K_R00, << >>)>>,
       <<Other(K_R01 \o <<SEP, Digit(4), SEP, Digit(5), TERM, LF>>)>> >>

\* the chunks the device sends in the threaded model, and in the cooperative
ThreadedChunks == {1}
CoopChunks == 1..Len(ChunkTable)

RECURSIVE ItemBytes(_)
ItemBytes(items) ==
    IF Len(items) = 0 THEN << >> ELSE Head(items).bytes \o ItemBytes(Tail(items))

\* the bytes of chunk i; chunk 0 is the read that times out with nothing
ChunkBytes(i) == IF i = 0 THEN << >> ELSE ItemBytes(ChunkTable[i])


(***************************************************************************)
(* The state of one UwbModule and of the threads that use it.              *)
(***************************************************************************)
\* bounds of the model
MaxReads == 2
MaxCalls == 1
MaxCoopCalls == 2
MaxRegister == 2
MaxUnregister == 1
MaxRegistryRegister == 3
MaxRegistryUnregister == 2
MaxRegistryReads == 1

\* times in tenths of a second: the transport's read timeout the constructor
\* sets, and the command timeout the caller constructs the module with
DeviceTimeoutDefault == 1
SelfTimeout == 10

MainThread == "c1"
Callers == {"c1", "c2"}
Threads == Callers \cup {"disp"}

\* get_id and reset; in the threaded model each caller thread issues one
GetId == [cmd |-> K_C01, rsp |-> K_R01, args |-> << >>]
Reset == [cmd |-> K_C02, rsp |-> K_R02, args |-> << >>]
CommandsOf(c) == IF c = MainThread THEN {GetId} ELSE {Reset}

\* what register_callback is called with
CbKeys == {K_R01}
Functions == {"f", "g"}
\* the keys for which the registry specification registers callbacks
RegistryKeys == {K_R01, K_R02}

\* wait_for_messages(timeout): -1 is timeout=None
WfmTimeouts == {-1, 5}

VARIABLES
    threaded,            \* self._threaded
    kill_monitor,        \* self._kill_monitor
    device_timeout,      \* self.device.timeout
    device_out,          \* what has been written to self.device, in order
    response_container,  \* self._response_container
    msg_queue,           \* self._msg_queue
    callbacks,           \* self._callbacks
    monitor,             \* the serial monitor thread: where it is, its locals
    disp_pc,             \* the callback dispatcher thread: "get" or "exited"
    caller,              \* the caller threads: where each is, its locals
    exec,                \* per thread, the _execute_callbacks it is running
    nreads,              \* history: the number of chunks the device has sent
    nparsed,             \* history: the number of frames unpack has accepted
    nstored,             \* history: the number of writes of a payload to a slot
    put_log,             \* history: the ids of the frames put on the queue
    popped,              \* history: the ids of the frames taken off the queue
    invoked,             \* history: the callback invocations
    reg_log,             \* history: the register_callback calls
    done_log,            \* history: the frames whose dispatch is complete
    unreg_log,           \* history: the unregister_callback calls
    call                 \* the application's call under study: its input, its results

vars ==
    <<threaded, kill_monitor, device_timeout, device_out, response_container,
      msg_queue, callbacks, monitor, disp_pc, caller, exec, nreads, nparsed,
      nstored, put_log, popped, invoked, reg_log, done_log, unreg_log, call>>

\* A slot of the response table: no entry for the key, None, or the field
\* values of a frame (id tells the frames apart: it is the frame's number
\* in the order of parsing).
Missing == [state |-> "missing", vals |-> << >>, id |-> 0]
NoneSlot == [state |-> "none", vals |-> << >>, id |-> 0]
Payload(vals, id) == [state |-> "payload", vals |-> vals, id |-> id]
\* what a call has returned: nothing yet, a slot's content, or an exception
Pending == [state |-> "pending", vals |-> << >>, id |-> 0]
RaisedKeyError == [state |-> "raised", vals |-> << >>, id |-> 0]

\* A message on the queue: (msg_key, field_values), or None.
Msg(key, vals, id) == [key |-> key, vals |-> vals, id |-> id]
NoneMsg == Msg(<< >>, << >>, 0)

ExecIdle == [pc |-> "idle", msg |-> NoneMsg, idx |-> 0, snap |-> << >>]

CallerInit ==
    [pc |-> "idle", op |-> "none", rsp |-> << >>, result |-> Pending,
     written |-> FALSE, cleared |-> FALSE, timedout |-> FALSE,
     matched |-> FALSE, seen |-> FALSE, stale |-> FALSE, wokenBy |-> << >>,
     sentAt |-> 0, clearedAt |-> 0, reads |-> 0, chunk |-> 0, ncalls |-> 0]

MonitorInit == [pc |-> "read", time_to_exit |-> FALSE, temp |-> << >>, msg |-> NoneMsg]

\* no call is under study
NoCall == [fn |-> "none"]

\* after __init__, with threaded chosen by the caller
InitModule ==
    /\ threaded \in BOOLEAN
    /\ kill_monitor = FALSE
    /\ device_timeout = DeviceTimeoutDefault
    /\ device_out = << >>
    /\ response_container = [k \in DOMAIN r_format_dict |-> Missing]
    /\ msg_queue = << >>
    /\ callbacks = [k \in {} |-> << >>]
    /\ monitor = MonitorInit
    /\ disp_pc = "get"
    /\ caller = [c \in Callers |-> CallerInit]
    /\ exec = [t \in Threads |-> ExecIdle]
    /\ nreads = 0
    /\ nparsed = 0
    /\ nstored = 0
    /\ put_log = << >>
    /\ popped = << >>
    /\ invoked = << >>
    /\ reg_log = << >>
    /\ done_log = << >>
    /\ unreg_log = << >>

Init == InitModule /\ call = NoCall


(***************************************************************************)
(* The response table and the event queue.                                 *)
(***************************************************************************)
\* self._response_container[msg_key] = field_values
StoreFrame(rc, msg) == [rc EXCEPT ![msg.key] = Payload(msg.vals, msg.id)]

\* a variant of ClearSlot that leaves the slot as it is
ClearSlotSkipped(rc, response_key) == rc

\* self._response_container[response_key] = None
ClearSlot(rc, response_key) == [rc EXCEPT ![response_key] = NoneSlot]

\* response = self._response_container[response_key]: KeyError without entry
ReadSlot(rc, response_key) ==
    IF rc[response_key].state = "missing" THEN RaisedKeyError ELSE rc[response_key]

\* a variant of QueuePut that keeps only the frames somebody listens to
QueuePutIfListened(q, msg) ==
    IF msg.key \in DOMAIN callbacks THEN Append(q, msg) ELSE q

\* self._msg_queue.put(...) and self._msg_queue.append(...)
QueuePut(q, msg) == Append(q, msg)

\* a variant of QueueGet that takes the newest message
QueueGetLast(q) == [msg |-> q[Len(q)], rest |-> SubSeq(q, 1, Len(q) - 1)]

\* self._msg_queue.get(): the message, the rest of the queue
QueueGet(q) == [msg |-> Head(q), rest |-> Tail(q)]

\* self._msg_queue.pop(0): the message, the rest of the list
ListPopFirst(q) == [msg |-> Head(q), rest |-> Tail(q)]

RECURSIVE StoreAll(_, _)
StoreAll(rc, msgs) ==
    IF Len(msgs) = 0 THEN rc ELSE StoreAll(StoreFrame(rc, Head(msgs)), Tail(msgs))

RECURSIVE PutAll(_, _)
PutAll(q, msgs) ==
    IF Len(msgs) = 0 THEN q ELSE PutAll(QueuePut(q, Head(msgs)), Tail(msgs))

\* frames numbered in the order of parsing, after the `base` parsed before
WithIds(frames, base) ==
    [i \in 1..Len(frames) |-> Msg(frames[i].key, frames[i].vals, base + i)]

Ids(msgs) == [i \in 1..Len(msgs) |-> msgs[i].id]

\* what a queue operation added at the tail of q to give q2
Added(q, q2) == IF Len(q2) > Len(q) THEN SubSeq(q2, Len(q) + 1, Len(q2)) ELSE << >>

\* the chunks a read may return: the device sends at most MaxReads chunks,
\* and a read may always time out with nothing (chunk 0)
ReadableChunks ==
    IF nreads < MaxReads
    THEN {0} \cup (IF threaded THEN ThreadedChunks ELSE CoopChunks)
    ELSE {0}

(***************************************************************************)
(* The serial monitor thread (threaded model).                             *)
(***************************************************************************)
\* what the scanning loop leaves when it stops at the frame f, or at the end
\* of temp when f is not found
MonitorScanned(tte, f) ==
    /\ monitor' =
          IF f.found
          THEN [pc |-> "store", time_to_exit |-> tte, temp |-> f.rest,
                msg |-> Msg(f.key, f.vals, nparsed + 1)]
          ELSE [pc |-> IF tte THEN "exit" ELSE "read", time_to_exit |-> tte,
                temp |-> << >>, msg |-> NoneMsg]
    /\ nparsed' = IF f.found THEN nparsed + 1 ELSE nparsed
    /\ UNCHANGED caller

\* the scanning loop, run on temp up to the next frame or to its end
MonitorScan(tte, temp) == MonitorScanned(tte, ScanNext(temp))

\* the top of the loop of _serial_monitor, and _read_and_unpack up to the
\* first frame of the chunk
MonRead(i) ==
    /\ threaded
    /\ monitor.pc = "read"
    /\ i \in ReadableChunks
    /\ nreads' = IF i > 0 THEN nreads + 1 ELSE nreads
    /\ MonitorScan(monitor.time_to_exit \/ kill_monitor, ChunkBytes(i))
    /\ UNCHANGED <<call, threaded, kill_monitor, device_timeout, device_out,
                   response_container, msg_queue, callbacks, disp_pc, exec,
                   nstored, put_log, popped, invoked, reg_log, done_log, unreg_log>>


\* history: a frame for the response key of a call was stored during the
\* call (seen); it was parsed after the call wrote its command, and stored
\* before the timeout of the call elapsed (matched)
NoteStored(msg) ==
    [c \in Callers |->
        IF caller[c].pc \in {"sent", "waiting", "woken"} /\ caller[c].rsp = msg.key
        THEN [caller[c] EXCEPT
                 !.seen = TRUE,
                 !.matched = @ \/ (~caller[c].timedout /\ msg.id > caller[c].sentAt)]
        ELSE caller[c]]

\* with self._response_condition: the slot is written and one waiter, if
\* there is one, is notified
MonStore ==
    /\ threaded
    /\ monitor.pc = "store"
    /\ response_container' = StoreFrame(response_container, monitor.msg)
    /\ nstored' = nstored + 1
    /\ LET waiters == {c \in Callers : caller[c].pc = "waiting"}
       IN  IF waiters = {}
           THEN caller' = NoteStored(monitor.msg)
           ELSE \E w \in waiters :
                   caller' = [NoteStored(monitor.msg) EXCEPT
                                 ![w].pc = "woken", ![w].wokenBy = monitor.msg.key]
    /\ monitor' = [monitor EXCEPT !.pc = "put"]
    /\ UNCHANGED <<call, threaded, kill_monitor, device_timeout, device_out, msg_queue,
                   callbacks, disp_pc, exec, nreads, nparsed, put_log, popped,
                   invoked, reg_log, done_log, unreg_log>>

\* self._msg_queue.put((msg_key, field_values)), temp = temp[end_idx + 1:],
\* and the scanning loop up to the next frame
MonPut ==
    /\ threaded
    /\ monitor.pc = "put"
    /\ msg_queue' = QueuePut(msg_queue, monitor.msg)
    /\ put_log' = put_log \o Ids(Added(msg_queue, msg_queue'))
    /\ MonitorScan(monitor.time_to_exit, monitor.temp)
    /\ UNCHANGED <<call, threaded, kill_monitor, device_timeout, device_out,
                   response_container, callbacks, disp_pc, exec, nreads, nstored,
                   popped, invoked, reg_log, done_log, unreg_log>>

\* a variant of MonExit that leaves the loop without the sentinel
MonExitSilent ==
    /\ threaded
    /\ monitor.pc = "exit"
    /\ monitor' = [monitor EXCEPT !.pc = "exited"]
    /\ UNCHANGED <<call, threaded, kill_monitor, device_timeout, device_out,
                   response_container, msg_queue, callbacks, disp_pc, caller, exec,
                   nreads, nparsed, nstored, put_log, popped, invoked, reg_log,
                   done_log, unreg_log>>

\* if time_to_exit: self._msg_queue.put(None); break
MonExit ==
    /\ threaded
    /\ monitor.pc = "exit"
    /\ msg_queue' = Append(msg_queue, NoneMsg)
    /\ monitor' = [monitor EXCEPT !.pc = "exited"]
    /\ UNCHANGED <<call, threaded, kill_monitor, device_timeout, device_out,
                   response_container, callbacks, disp_pc, caller, exec, nreads,
                   nparsed, nstored, put_log, popped, invoked, reg_log, done_log,
                   unreg_log>>

\* close()
Close ==
    /\ threaded
    /\ ~kill_monitor
    /\ kill_monitor' = TRUE
    /\ UNCHANGED <<call, threaded, device_timeout, device_out, response_container,
                   msg_queue, callbacks, monitor, disp_pc, caller, exec, nreads,
                   nparsed, nstored, put_log, popped, invoked, reg_log, done_log,
                   unreg_log>>

(***************************************************************************)
(* _execute_callbacks, run by the dispatcher thread (threaded model) or by *)
(* the caller (cooperative model).  The for loop iterates over the list    *)
(* object of the registry itself: it reads the list at each step.  A       *)
(* thread in _execute_callbacks is inside a callback; what the loop does   *)
(* between two callbacks is one step with the return of the first.         *)
(***************************************************************************)
\* if msg_key in self._callbacks.keys(): cb_list = self._callbacks[msg_key]
LookupCallbacks(msg_key) ==
    IF msg_key \in DOMAIN callbacks
    THEN [found |-> TRUE, list |-> callbacks[msg_key]]
    ELSE [found |-> FALSE, list |-> << >>]

\* cb_list, the list object of the registry, as it is now
CallbackList(msg_key) == LookupCallbacks(msg_key).list

\* history: (cb, cb_args) = e is called by thread t for the frame msg
Invocation(t, msg, e) ==
    [id |-> msg.id, key |-> msg.key, cb |-> e.cb, reg |-> e.reg, thread |-> t]

\* history: the dispatch of msg is complete; snap is the list of the key when
\* the dispatch began, final the list when it ended
Completed(msg, snap, final) == [id |-> msg.id, snap |-> snap, final |-> final]

\* _execute_callbacks(msg_key, field_values) is entered by thread t: when the
\* key is in the registry the for loop starts, and calls the first callback
\* of the list if it has one
BeginCallbacks(t, msg) ==
    /\ popped' = Append(popped, msg.id)
    /\ IF LookupCallbacks(msg.key).found /\ Len(CallbackList(msg.key)) > 0
       THEN /\ exec' = [exec EXCEPT ![t] =
                           [pc |-> "incb", msg |-> msg, idx |-> 1,
                            snap |-> CallbackList(msg.key)]]
            /\ invoked' = Append(invoked, Invocation(t, msg, CallbackList(msg.key)[1]))
            /\ done_log' = done_log
       ELSE /\ exec' = exec
            /\ invoked' = invoked
            /\ done_log' = Append(done_log, Completed(msg, << >>, << >>))

\* the callback that thread t is running returns, and the for loop goes on:
\* idx list items have been taken, and the list is read again as it is now
CbNext(t) ==
    /\ exec[t].pc = "incb"
    /\ LET cb_list == CallbackList(exec[t].msg.key)
       IN  IF exec[t].idx < Len(cb_list)
           THEN /\ invoked' = Append(invoked,
                                     Invocation(t, exec[t].msg, cb_list[exec[t].idx + 1]))
                /\ exec' = [exec EXCEPT ![t].idx = @ + 1]
                /\ done_log' = done_log
           ELSE /\ invoked' = invoked
                /\ exec' = [exec EXCEPT ![t] = ExecIdle]
                /\ done_log' = Append(done_log,
                                      Completed(exec[t].msg, exec[t].snap, cb_list))
    /\ UNCHANGED <<call, threaded, kill_monitor, device_timeout, device_out,
                   response_container, msg_queue, callbacks, monitor, disp_pc,
                   caller, nreads, nparsed, nstored, put_log, popped, reg_log,
                   unreg_log>>

\* _cb_dispatcher: msg = self._msg_queue.get(); None ends the thread
DispGet ==
    /\ threaded
    /\ disp_pc = "get"
    /\ exec["disp"].pc = "idle"
    /\ Len(msg_queue) > 0
    /\ LET g == QueueGet(msg_queue)
       IN  /\ msg_queue' = g.rest
           /\ IF g.msg = NoneMsg
              THEN /\ disp_pc' = "exited"
                   /\ UNCHANGED <<exec, popped, invoked, done_log>>
              ELSE /\ disp_pc' = disp_pc
                   /\ BeginCallbacks("disp", g.msg)
    /\ UNCHANGED <<call, threaded, kill_monitor, device_timeout, device_out,
                   response_container, callbacks, monitor, caller, nreads,
                   nparsed, nstored, put_log, reg_log, unreg_log>>


(***************************************************************************)
(* register_callback and unregister_callback.  In the threaded model any   *)
(* thread may call them at any time; in the cooperative model the one      *)
(* thread calls them between its calls.                                    *)
(***************************************************************************)
CanCallRegistry == threaded \/ caller[MainThread].pc \in {"idle", "done"}

\* a variant that finds the last registration of the function
FuncIndexLast(cb_list, cb_function) ==
    IF \E i \in 1..Len(cb_list) : cb_list[i].cb = cb_function
    THEN CHOOSE i \in 1..Len(cb_list) :
            /\ cb_list[i].cb = cb_function
            /\ \A j \in (i + 1)..Len(cb_list) : cb_list[j].cb # cb_function
    ELSE 0

\* [x[0] for x in self._callbacks[msg_key]].index(cb_function), from 1; 0: absent
FuncIndex(cb_list, cb_function) ==
    IF \E i \in 1..Len(cb_list) : cb_list[i].cb = cb_function
    THEN CHOOSE i \in 1..Len(cb_list) :
            /\ cb_list[i].cb = cb_function
            /\ \A j \in 1..(i - 1) : cb_list[j].cb # cb_function
    ELSE 0

\* list.pop(idx), idx from 1
ListPop(l, idx) == SubSeq(l, 1, idx - 1) \o SubSeq(l, idx + 1, Len(l))

\* register_callback, called while fewer than max calls have been made
RegisterUpTo(max, msg_key, cb_function) ==
    /\ CanCallRegistry
    /\ Len(reg_log) < max
    /\ reg_log' = Append(reg_log, [key |-> msg_key, cb |-> cb_function])
    /\ LET e == [cb |-> cb_function, reg |-> Len(reg_log) + 1]
       IN  callbacks' =
              IF msg_key \in DOMAIN callbacks
              THEN [callbacks EXCEPT ![msg_key] = Append(@, e)]
              ELSE (msg_key :> <<e>>) @@ callbacks
    /\ UNCHANGED <<call, threaded, kill_monitor, device_timeout, device_out,
                   response_container, msg_queue, monitor, disp_pc, caller, exec,
                   nreads, nparsed, nstored, put_log, popped, invoked, done_log,
                   unreg_log>>

Register(msg_key, cb_function) == RegisterUpTo(MaxRegister, msg_key, cb_function)

\* history: unregister_callback(msg_key, cb_function) was called when `at'
\* frames had been taken off the queue, and popped the registration reg
\* (0: it popped nothing)
Unregistered(msg_key, cb_function, reg, at) ==
    [key |-> msg_key, cb |-> cb_function, reg |-> reg, at |-> at]

\* unregister_callback, called while fewer than max calls have been made
UnregisterUpTo(max, msg_key, cb_function) ==
    /\ CanCallRegistry
    /\ Len(unreg_log) < max
    /\ IF msg_key \in DOMAIN callbacks /\ FuncIndex(callbacks[msg_key], cb_function) > 0
       THEN /\ callbacks' = [callbacks EXCEPT ![msg_key] =
                                ListPop(@, FuncIndex(@, cb_function))]
            /\ unreg_log' = Append(unreg_log,
                  Unregistered(msg_key, cb_function,
                     callbacks[msg_key][FuncIndex(callbacks[msg_key], cb_function)].reg,
                     Len(popped)))
       ELSE /\ UNCHANGED callbacks
            /\ unreg_log' = Append(unreg_log,
                  Unregistered(msg_key, cb_function, 0, Len(popped)))
    /\ UNCHANGED <<call, threaded, kill_monitor, device_timeout, device_out,
                   response_container, msg_queue, monitor, disp_pc, caller, exec,
                   nreads, nparsed, nstored, put_log, popped, invoked, reg_log,
                   done_log>>

Unregister(msg_key, cb_function) ==
    UnregisterUpTo(MaxUnregister, msg_key, cb_function)

(***************************************************************************)
(* _execute_command and wait_for_messages, called by a caller thread.  In  *)
(* the cooperative model the module is used by one thread, MainThread.     *)
(***************************************************************************)
MayCall(c) ==
    /\ threaded \/ c = MainThread
    /\ caller[c].pc \in {"idle", "done"}
    /\ caller[c].ncalls < (IF threaded THEN MaxCalls ELSE MaxCoopCalls)

\* msg = command_key + self.packer.pack(args, ...); self._send(msg)
Send(c, command) ==
    /\ MayCall(c)
    /\ device_out' = Append(device_out,
                            command.cmd \o Pack(command.args, c_format_dict[command.cmd]))
    /\ caller' = [caller EXCEPT ![c] =
                     [CallerInit EXCEPT !.pc = "sent", !.op = "cmd",
                                        !.rsp = command.rsp, !.written = TRUE,
                                        !.sentAt = nparsed,
                                        !.ncalls = caller[c].ncalls + 1]]
    /\ UNCHANGED <<call, threaded, kill_monitor, device_timeout, response_container,
                   msg_queue, callbacks, monitor, disp_pc, exec, nreads, nparsed,
                   nstored, put_log, popped, invoked, reg_log, done_log, unreg_log>>

\* threaded: with self._response_condition: the slot is set to None and the
\* thread waits on the condition, which releases the lock
ThreadedEnter(c) ==
    /\ threaded
    /\ caller[c].pc = "sent"
    /\ response_container' = ClearSlot(response_container, caller[c].rsp)
    /\ caller' = [caller EXCEPT
                     ![c].pc = "waiting", ![c].cleared = TRUE,
                     ![c].clearedAt = nstored,
                     ![c].stale = (response_container[caller[c].rsp].state = "payload")]
    /\ UNCHANGED <<call, threaded, kill_monitor, device_timeout, device_out, msg_queue,
                   callbacks, monitor, disp_pc, exec, nreads, nparsed, nstored,
                   put_log, popped, invoked, reg_log, done_log, unreg_log>>

\* a variant of WaitMayTimeOut for a wait without a timeout
WaitNeverTimesOut(c) == FALSE

\* self._response_condition.wait(self.timeout) has a finite timeout
WaitMayTimeOut(c) == caller[c].pc = "waiting"

\* the timeout of the wait elapses
Timeout(c) ==
    /\ threaded
    /\ WaitMayTimeOut(c)
    /\ caller' = [caller EXCEPT ![c].pc = "woken", ![c].timedout = TRUE]
    /\ UNCHANGED <<call, threaded, kill_monitor, device_timeout, device_out,
                   response_container, msg_queue, callbacks, monitor, disp_pc,
                   exec, nreads, nparsed, nstored, put_log, popped, invoked,
                   reg_log, done_log, unreg_log>>

\* the wait returns holding the lock; the slot is read and returned
ThreadedReturn(c) ==
    /\ threaded
    /\ caller[c].pc = "woken"
    /\ caller' = [caller EXCEPT ![c].pc = "done",
                                ![c].result = ReadSlot(response_container, caller[c].rsp)]
    /\ UNCHANGED <<call, threaded, kill_monitor, device_timeout, device_out,
                   response_container, msg_queue, callbacks, monitor, disp_pc,
                   exec, nreads, nparsed, nstored, put_log, popped, invoked,
                   reg_log, done_log, unreg_log>>

\* one _read_and_unpack on the caller's thread: every frame of the chunk is
\* stored and appended to the queue, in order
StoreAndPut(rc, msgs) ==
    /\ response_container' = StoreAll(rc, msgs)
    /\ msg_queue' = PutAll(msg_queue, msgs)
    /\ put_log' = put_log \o Ids(Added(msg_queue, msg_queue'))
    /\ nparsed' = nparsed + Len(msgs)
    /\ nstored' = nstored + Len(msgs)

\* out = self._read() gives chunk i, and the scanning loop runs over it
ReadAndUnpackHere(rc, i) ==
    /\ StoreAndPut(rc, WithIds(ScanAll(ChunkBytes(i)), nparsed))
    /\ nreads' = IF i > 0 THEN nreads + 1 ELSE nreads

\* history: the _read_and_unpack of this step parsed a frame of the key
ParsedHere(key) ==
    \E k \in 1..Len(msg_queue') : k > Len(msg_queue) /\ msg_queue'[k].key = key

\* cooperative: the slot is set to None, one _read_and_unpack, the slot is read
CoopReadAndUnpack(c, i) ==
    /\ ~threaded
    /\ caller[c].pc = "sent"
    /\ i \in ReadableChunks
    /\ ReadAndUnpackHere(ClearSlot(response_container, caller[c].rsp), i)
    /\ caller' = [caller EXCEPT
                     ![c].pc = "drain", ![c].cleared = TRUE,
                     ![c].clearedAt = nstored, ![c].reads = @ + 1, ![c].chunk = i,
                     ![c].stale = (response_container[caller[c].rsp].state = "payload"),
                     ![c].matched = ParsedHere(caller[c].rsp),
                     ![c].seen = ParsedHere(caller[c].rsp),
                     ![c].result = ReadSlot(response_container', caller[c].rsp)]
    /\ UNCHANGED <<call, threaded, kill_monitor, device_timeout, device_out, callbacks,
                   monitor, disp_pc, exec, popped, invoked, reg_log, done_log,
                   unreg_log>>

\* a variant of WfmActive without the test of self._threaded
WfmAlways == TRUE

\* wait_for_messages does its work `if not self._threaded`
WfmActive == ~threaded

\* wait_for_messages(timeout) up to the end of its _read_and_unpack
WaitForMessages(c, timeout, i) ==
    /\ MayCall(c)
    /\ IF WfmActive
       THEN /\ i \in ReadableChunks
            /\ device_timeout' = IF timeout = -1 THEN SelfTimeout ELSE timeout
            /\ ReadAndUnpackHere(response_container, i)
            /\ caller' = [caller EXCEPT ![c] =
                             [CallerInit EXCEPT !.pc = "drain", !.op = "wfm",
                                                !.reads = 1, !.chunk = i,
                                                !.ncalls = caller[c].ncalls + 1]]
       ELSE /\ i = 0 /\ timeout = -1
            /\ UNCHANGED <<device_timeout, response_container, msg_queue, put_log,
                           nparsed, nstored, nreads, caller>>
    /\ UNCHANGED <<call, threaded, kill_monitor, device_out, callbacks, monitor, disp_pc,
                   exec, popped, invoked, reg_log, done_log, unreg_log>>

\* while len(self._msg_queue) > 0: msg_key, field_values = self._msg_queue.pop(0)
DrainPop(c) ==
    /\ caller[c].pc = "drain"
    /\ exec[c].pc = "idle"
    /\ Len(msg_queue) > 0
    /\ LET g == ListPopFirst(msg_queue)
       IN  /\ msg_queue' = g.rest
           /\ BeginCallbacks(c, g.msg)
    /\ UNCHANGED <<call, threaded, kill_monitor, device_timeout, device_out,
                   response_container, callbacks, monitor, disp_pc, caller, nreads,
                   nparsed, nstored, put_log, reg_log, unreg_log>>

\* a variant of DrainDone that returns after the callbacks of one frame
DrainDoneEarly(c) ==
    /\ caller[c].pc = "drain"
    /\ exec[c].pc = "idle"
    /\ caller' = [caller EXCEPT ![c].pc = IF caller[c].op = "cmd" THEN "done" ELSE "idle"]
    /\ device_timeout' = IF caller[c].op = "wfm" THEN SelfTimeout ELSE device_timeout
    /\ UNCHANGED <<call, threaded, kill_monitor, device_out, response_container,
                   msg_queue, callbacks, monitor, disp_pc, exec, nreads, nparsed,
                   nstored, put_log, popped, invoked, reg_log, done_log, unreg_log>>

\* the queue is empty: _execute_command returns response, and wait_for_messages
\* sets self.device.timeout = old_timeout, which is self.timeout
DrainDone(c) ==
    /\ caller[c].pc = "drain"
    /\ exec[c].pc = "idle"
    /\ Len(msg_queue) = 0
    /\ caller' = [caller EXCEPT ![c].pc = IF caller[c].op = "cmd" THEN "done" ELSE "idle"]
    /\ device_timeout' = IF caller[c].op = "wfm" THEN SelfTimeout ELSE device_timeout
    /\ UNCHANGED <<call, threaded, kill_monitor, device_out, response_container,
                   msg_queue, callbacks, monitor, disp_pc, exec, nreads, nparsed,
                   nstored, put_log, popped, invoked, reg_log, done_log, unreg_log>>

(***************************************************************************)
(* The specifications.  Each runs the module against a program that makes  *)
(* some of the calls of the interface.                                     *)
(***************************************************************************)
\* the monitor and the dispatcher threads
NextThreads ==
    \/ \E i \in 0..Len(ChunkTable) : MonRead(i)
    \/ MonStore
    \/ MonPut
    \/ DispGet

\* Either model.  The main thread issues commands and calls
\* wait_for_messages; in the threaded model another thread calls
\* wait_for_messages too; callbacks are registered and unregistered.
Next ==
    \/ NextThreads
    \/ \E t \in Threads : CbNext(t)
    \/ \E k \in CbKeys, f \in Functions : Register(k, f)
    \/ \E k \in CbKeys, f \in Functions : Unregister(k, f)
    \/ \E command \in CommandsOf(MainThread) : Send(MainThread, command)
    \/ ThreadedEnter(MainThread)
    \/ Timeout(MainThread)
    \/ ThreadedReturn(MainThread)
    \/ \E i \in 0..Len(ChunkTable) : CoopReadAndUnpack(MainThread, i)
    \/ \E c \in Callers, timeout \in WfmTimeouts, i \in 0..Len(ChunkTable) :
          WaitForMessages(c, timeout, i)
    \/ \E c \in Callers : DrainPop(c)
    \/ \E c \in Callers : DrainDone(c)

\* The threaded model, each caller thread issuing its command, and close().
NextCmd ==
    \/ NextThreads
    \/ MonExit
    \/ Close
    \/ \E c \in Callers : \E command \in CommandsOf(c) : Send(c, command)
    \/ \E c \in Callers : ThreadedEnter(c)
    \/ \E c \in Callers : Timeout(c)
    \/ \E c \in Callers : ThreadedReturn(c)

\* The threaded model with an application that registers and unregisters
\* callbacks, under two keys, while frames arrive and are dispatched.
NextRegistry ==
    \/ \E i \in ThreadedChunks : nreads < MaxRegistryReads /\ MonRead(i)
    \/ MonStore
    \/ MonPut
    \/ DispGet
    \/ CbNext("disp")
    \/ \E k \in RegistryKeys, f \in Functions :
          RegisterUpTo(MaxRegistryRegister, k, f)
    \/ \E k \in RegistryKeys, f \in Functions :
          UnregisterUpTo(MaxRegistryUnregister, k, f)

InitThreaded == Init /\ threaded = TRUE

Spec == Init /\ [][Next]_vars
SpecCmd == InitThreaded /\ [][NextCmd]_vars
SpecRegistry == InitThreaded /\ [][NextRegistry]_vars


\* The threaded model with an application that registers callbacks and
\* calls close() at any time, while frames arrive and are dispatched.
NextClose ==
    \/ NextThreads
    \/ MonExit
    \/ Close
    \/ CbNext("disp")
    \/ \E k \in CbKeys, f \in Functions : Register(k, f)

SpecClose == InitThreaded /\ [][NextClose]_vars

\* WF_vars(MonPut) with ENABLED <<MonPut>>_vars written as the state predicate
\* it is equal to: the put is possible exactly when the monitor is at it
WeakFairnessOfMonPut ==
    \/ []<>(~(threaded /\ monitor.pc = "put"))
    \/ []<><<MonPut>>_vars

\* The scheduler runs the monitor and the dispatcher threads, a transport
\* read returns within its timeout, and a callback returns.
FairSpecClose ==
    /\ SpecClose
    /\ WF_vars(\E i \in 0..Len(ChunkTable) : MonRead(i))
    /\ WF_vars(MonStore)
    /\ WeakFairnessOfMonPut
    /\ WF_vars(MonExit)
    /\ WF_vars(DispGet)
    /\ WF_vars(CbNext("disp"))

\* The scheduler runs every thread that can run, the timeout of a wait
\* elapses, a transport read returns within its timeout, and a callback
\* returns.
FairSpec ==
    /\ Spec
    /\ WF_vars(ThreadedEnter(MainThread))
    /\ WF_vars(Timeout(MainThread))
    /\ WF_vars(ThreadedReturn(MainThread))
    /\ WF_vars(\E i \in 0..Len(ChunkTable) : CoopReadAndUnpack(MainThread, i))
    /\ WF_vars(DrainPop(MainThread))
    /\ WF_vars(CbNext(MainThread))
    /\ WF_vars(DrainDone(MainThread))

(***************************************************************************)
(* The scanner on a stream.  The device sends a stream of items, and the   *)
(* application, in the cooperative model, calls wait_for_messages twice:   *)
(* the first read returns the first `cut' bytes of the stream, the second  *)
(* read the rest.                                                          *)
(***************************************************************************)
MaxItems == 2
MaxScanRegister == 2

K_R09 == <<82, 48, 57>>
CH_x == 120

\* well-formed frames of response and spontaneous keys
ScanFrames ==
    { WellFormed(K_R00, << >>),
      WellFormed(K_R02, << >>),
      WellFormed(K_R01, <<IntVal(32)>>),
      WellFormed(K_R07, <<IntVal(-5)>>),
      WellFormed(K_S06, <<BytesVal(<<TERM, SEP>>)>>),
      WellFormed(K_R05, <<IntVal(0), Float(1)>> \o Rep(IntVal(1), 6)
                           \o <<Float(1), Float(2)>>) }

\* candidate frames whose decoding fails: an Int that is not a number, a
\* missing field, a Bool span of two bytes, no separator and no terminator
FailingCandidates ==
    { Other(K_R01 \o <<SEP, Digit(4), CH_x, TERM, LF>>),
      Other(K_R01 \o <<TERM, LF>>),
      Other(K_R03 \o <<SEP, Digit(1), SEP, Digit(2), SEP, CH_x, SEP, Digit(1), Digit(0),
                       TERM, LF>>),
      Other(K_R01 \o <<SEP, Digit(5)>>) }

\* bytes that hold no key of the schema table: noise, the tail of a frame
Noise ==
    { Other(<<LF>>),
      Other(<<CH_x, CH_x>>),
      Other(<<CH_R>>),
      Other(<<CH_S, CH_0>>),
      Other(<<SEP, Digit(4), TERM, LF>>) }

\* frames of keys that are not in the schema table of responses
UnknownKeyFrames ==
    { Other(K_R09 \o <<SEP, Digit(4), TERM, LF>>),
      Other(K_C01 \o <<TERM, LF>>) }

ScanItems == ScanFrames \cup FailingCandidates \cup Noise \cup UnknownKeyFrames

\* the stream of the example: frames of R05, R01, R00 and R02
ExampleStream ==
    << WellFormed(K_R05, <<IntVal(0), Float(1)>> \o Rep(IntVal(1), 6)
                            \o <<Float(1), Float(2)>>),
       WellFormed(K_R01, <<IntVal(32)>>),
       WellFormed(K_R00, << >>),
       WellFormed(K_R02, << >>) >>

ScanStreams ==
    UNION {[1..n -> ScanItems] : n \in 1..MaxItems} \cup {ExampleStream}

\* the keys under which the application of the scanner registers a callback
ScanCbKeys == {K_R01, K_R09}

ScanCall(items, cut) ==
    [fn |-> "scan", items |-> items, cut |-> cut, reads |-> 0, out |-> << >>]

\* what the n-th read returns
StreamPart(items, cut, n) ==
    IF n = 1 THEN Take(ItemBytes(items), cut) ELSE Drop(ItemBytes(items), cut)

\* wait_for_messages() in the cooperative model, up to the end of its
\* _read_and_unpack, when the read returns the next part of the stream
WaitForMessagesStream(c) ==
    /\ ~threaded
    /\ call.fn = "scan"
    /\ call.reads < 2
    /\ caller[c].pc \in {"idle", "done"}
    /\ device_timeout' = SelfTimeout
    /\ StoreAndPut(response_container,
                   WithIds(ScanAll(StreamPart(call.items, call.cut, call.reads + 1)),
                           nparsed))
    /\ nreads' = nreads + 1
    /\ call' = [call EXCEPT !.reads = @ + 1,
                            !.out = @ \o Added(msg_queue, msg_queue')]
    /\ caller' = [caller EXCEPT ![c] =
                     [CallerInit EXCEPT !.pc = "drain", !.op = "wfm", !.reads = 1,
                                        !.ncalls = caller[c].ncalls + 1]]
    /\ UNCHANGED <<threaded, kill_monitor, device_out, callbacks, monitor, disp_pc,
                   exec, popped, invoked, reg_log, done_log, unreg_log>>

NextScan ==
    \/ WaitForMessagesStream(MainThread)
    \/ DrainPop(MainThread)
    \/ CbNext(MainThread)
    \/ DrainDone(MainThread)
    \/ \E k \in ScanCbKeys : RegisterUpTo(MaxScanRegister, k, "f")

InitScan ==
    /\ InitModule
    /\ threaded = FALSE
    /\ \E items \in ScanStreams : \E cut \in 0..Len(ItemBytes(items)) :
          call = ScanCall(items, cut)

SpecScan == InitScan /\ [][NextScan]_vars


(***************************************************************************)
(* The commands.  The application calls one command of the interface, in   *)
(* either model, once or (cooperative model) twice.                        *)
(***************************************************************************)
CH_t == 116

Command(cmd, rsp, args) == [cmd |-> cmd, rsp |-> rsp, args |-> args]

\* set_idle, get_id, reset, get_max_frame_length: no argument
PlainCommands ==
    { Command(K_C00, K_R00, << >>), GetId, Reset, Command(K_C07, K_R07, << >>) }

\* do_tests: an Int, a String, a Bool, a Float and a Bytes
DoTests ==
    { Command(K_C03, K_R03, <<IntVal(n), StrVal(s), BoolVal(b), Float(f), BytesVal(y)>>) :
        n \in {12345, -7}, s \in {<< >>, <<CH_t, CH_SPACE, CH_t>>}, b \in BOOLEAN,
        f \in 1..Len(FloatTable), y \in {<< >>, <<TERM, SEP, 0>>} }

\* toggle_passive(toggle)
TogglePassive == { Command(K_C04, K_R04, <<BoolVal(b)>>) : b \in BOOLEAN }

\* do_twr(target_id, meas_at_target, mult_twr)
DoTwr ==
    { Command(K_C05, K_R05, <<IntVal(n), BoolVal(a), BoolVal(b)>>) :
        n \in {1, 10}, a \in BOOLEAN, b \in BOOLEAN }

\* the command of broadcast, for one frame
BroadcastFrame ==
    { Command(K_C06, K_R06, <<BytesVal(y)>>) : y \in {<<0>>, <<CH_t, TERM, LF>>} }

SendCommands == PlainCommands \cup DoTests \cup TogglePassive \cup DoTwr \cup BroadcastFrame

CommandCall(command) == [fn |-> "cmd", command |-> command]

\* the reads of a call in the cooperative model: nothing, or the frame R00
SendChunks == {0, 2}

NextSend ==
    \/ call.fn = "cmd" /\ Send(MainThread, call.command)
    \/ ThreadedEnter(MainThread)
    \/ Timeout(MainThread)
    \/ ThreadedReturn(MainThread)
    \/ \E i \in SendChunks : CoopReadAndUnpack(MainThread, i)
    \/ DrainPop(MainThread)
    \/ DrainDone(MainThread)

InitSend == InitModule /\ \E command \in SendCommands : call = CommandCall(command)

SpecSend == InitSend /\ [][NextSend]_vars


(***************************************************************************)
(* The packer and the fields on their own.  The application packs a list   *)
(* of values under a schema and unpacks the bytes under the same schema,   *)
(* or hands the bytes of one Bool field of a message to BoolField.unpack.  *)
(***************************************************************************)
MaxFields == 2

FieldTypes == {"Int", "Bool", "String", "Float", "Bytes"}

\* values that match a field type
ValuesOf(field) ==
    CASE field = "Int" -> {IntVal(0), IntVal(-12), IntVal(345)}
      [] field = "Bool" -> {BoolVal(FALSE), BoolVal(TRUE)}
      [] field = "String" -> {StrVal(<< >>), StrVal(<<CH_t, CH_SPACE, CH_t>>)}
      [] field = "Float" -> {Float(i) : i \in 1..Len(FloatTable)}
      [] field = "Bytes" -> {BytesVal(<< >>), BytesVal(<<TERM, SEP, 0>>)}

Schemas == UNION {[1..n -> FieldTypes] : n \in 0..MaxFields}

\* the lists of values that match a schema
Matching(field_types) ==
    {v \in [1..Len(field_types) -> UNION {ValuesOf(f) : f \in FieldTypes}] :
        \A i \in 1..Len(field_types) : v[i] \in ValuesOf(field_types[i])}

\* the content of a Bool field in a message, before a key character
BoolTexts ==
    { <<CH_0>>, <<Digit(1)>>, <<Digit(2)>>, <<CH_x>>, <<CH_SPACE>>, << >>,
      <<Digit(1), CH_0>>, <<CH_0, CH_0>> }

CodecCall(field_types, field_values) ==
    [fn |-> "codec", field_types |-> field_types, field_values |-> field_values,
     step |-> "start", msg |-> << >>, ret |-> UnpackRaised]

BoolCall(text, key_char) ==
    [fn |-> "bool", msg |-> text \o <<key_char>>, step |-> "start", ret |-> Raised]

\* msg = packer.pack(field_values, field_types)
DoPack ==
    /\ call.fn = "codec"
    /\ call.step = "start"
    /\ call' = [call EXCEPT !.step = "packed",
                            !.msg = Pack(call.field_values, call.field_types)]
    /\ UNCHANGED <<threaded, kill_monitor, device_timeout, device_out,
                   response_container, msg_queue, callbacks, monitor, disp_pc,
                   caller, exec, nreads, nparsed, nstored, put_log, popped, invoked,
                   reg_log, done_log, unreg_log>>

\* packer.unpack(msg, field_types)
DoUnpack ==
    /\ call.fn = "codec"
    /\ call.step = "packed"
    /\ call' = [call EXCEPT !.step = "unpacked",
                            !.ret = Unpack(call.msg, call.field_types)]
    /\ UNCHANGED <<threaded, kill_monitor, device_timeout, device_out,
                   response_container, msg_queue, callbacks, monitor, disp_pc,
                   caller, exec, nreads, nparsed, nstored, put_log, popped, invoked,
                   reg_log, done_log, unreg_log>>

\* BoolField.unpack(msg, next_key_idx), as Packer.unpack calls it
DoBoolUnpack ==
    /\ call.fn = "bool"
    /\ call.step = "start"
    /\ call' = [call EXCEPT !.step = "unpacked",
                            !.ret = BoolFieldUnpack(call.msg, GetNextKeyChar(call.msg))]
    /\ UNCHANGED <<threaded, kill_monitor, device_timeout, device_out,
                   response_container, msg_queue, callbacks, monitor, disp_pc,
                   caller, exec, nreads, nparsed, nstored, put_log, popped, invoked,
                   reg_log, done_log, unreg_log>>

NextCodec == DoPack \/ DoUnpack \/ DoBoolUnpack

InitCodec ==
    /\ InitModule
    /\ threaded = FALSE
    /\ \/ \E field_types \in Schemas : \E field_values \in Matching(field_types) :
             call = CodecCall(field_types, field_values)
       \/ \E text \in BoolTexts, key_char \in {SEP, TERM} : call = BoolCall(text, key_char)

SpecCodec == InitCodec /\ [][NextCodec]_vars


(***************************************************************************)
(* Bytes fields in a buffer.  The application packs values under a schema  *)
(* with a Bytes field; the packed message, followed in the buffer by what  *)
(* the device sent after it, is unpacked under the same schema.            *)
(***************************************************************************)
\* payloads of Bytes fields: empty, and with separator and terminator bytes
BytesPayloads ==
    { << >>, <<SEP>>, <<TERM, SEP, 0>>, <<CH_t, TERM, LF, CH_R>> }

BufferValuesOf(field) ==
    CASE field = "Int" -> {IntVal(345)}
      [] field = "String" -> {StrVal(<<CH_t, CH_SPACE, CH_t>>)}
      [] field = "Bytes" -> {BytesVal(y) : y \in BytesPayloads}

\* schemas of Int, String and Bytes fields with a Bytes field
BufferSchemas ==
    {t \in UNION {[1..n -> {"Int", "String", "Bytes"}] : n \in 1..MaxFields} :
        \E i \in 1..Len(t) : t[i] = "Bytes"}

BufferMatching(field_types) ==
    {v \in [1..Len(field_types) ->
               UNION {BufferValuesOf(f) : f \in {"Int", "String", "Bytes"}}] :
        \A i \in 1..Len(field_types) : v[i] \in BufferValuesOf(field_types[i])}

\* what follows the message in the buffer: nothing, the line feed, a frame
BufferRests ==
    { << >>, <<LF>>, <<LF>> \o WellFormed(K_R01, <<IntVal(7)>>).bytes }

BufferCall(field_types, field_values, rest) ==
    [fn |-> "codec", field_types |-> field_types, field_values |-> field_values,
     step |-> "start", msg |-> << >>, ret |-> UnpackRaised, rest |-> rest]

\* packer.unpack(temp, field_types), temp being the message and what follows
DoUnpackBuffer ==
    /\ call.fn = "codec"
    /\ call.step = "packed"
    /\ call' = [call EXCEPT !.step = "unpacked",
                            !.ret = Unpack(call.msg \o call.rest, call.field_types)]
    /\ UNCHANGED <<threaded, kill_monitor, device_timeout, device_out,
                   response_container, msg_queue, callbacks, monitor, disp_pc,
                   caller, exec, nreads, nparsed, nstored, put_log, popped, invoked,
                   reg_log, done_log, unreg_log>>

NextBuffer == DoPack \/ DoUnpackBuffer

InitBuffer ==
    /\ InitModule
    /\ threaded = FALSE
    /\ \E field_types \in BufferSchemas : \E field_values \in BufferMatching(field_types) :
          \E rest \in BufferRests : call = BufferCall(field_types, field_values, rest)

SpecBuffer == InitBuffer /\ [][NextBuffer]_vars


(***************************************************************************)
(* Long messages.  A receiver of long messages accumulates the fragments   *)
(* of the S06 frames; broadcast cuts a payload into fragments and sends    *)
(* each one with the command C06.                                          *)
(***************************************************************************)
\* self._exp_frames_remaining = None
NoneExpected == -1

\* LongMessageReceiver.__init__; delivered is the history of the calls of
\* cb_function, raised tells that the last frame_callback raised struct.error
ReceiverInit ==
    [long_msg |-> << >>, exp_frames_remaining |-> NoneExpected,
     delivered |-> << >>, raised |-> FALSE]

\* self._cb_function(self._long_msg, is_valid)
Delivery(long_msg, is_valid) == [msg |-> long_msg, is_valid |-> is_valid]

\* is_valid of one frame_callback: False when a countdown is expected and
\* this one is not that countdown less one
IsValid(exp_frames_remaining, frames_remaining) ==
    \/ exp_frames_remaining = NoneExpected
    \/ exp_frames_remaining - 1 = frames_remaining

\* the expected countdown after the if/elif/else: a countdown that breaks the
\* sequence leaves it as it was
NextExpected(exp_frames_remaining, frames_remaining) ==
    IF exp_frames_remaining = NoneExpected THEN frames_remaining
    ELSE IF exp_frames_remaining - 1 # frames_remaining THEN exp_frames_remaining
    ELSE frames_remaining

\* a variant of FrameCallback that delivers at every fragment
FrameCallbackEager(rcv, msg) ==
    IF Len(msg) = 0 THEN [rcv EXCEPT !.raised = TRUE]
    ELSE [long_msg |-> << >>, exp_frames_remaining |-> NoneExpected,
          delivered |-> Append(rcv.delivered,
                               Delivery(rcv.long_msg \o Tail(msg),
                                        IsValid(rcv.exp_frames_remaining, msg[1]))),
          raised |-> FALSE]

\* frame_callback(msg), msg[0] being the bytes of the S06 frame:
\* struct.unpack("<B", msg[0:1]) raises on an empty fragment
FrameCallback(rcv, msg) ==
    IF Len(msg) = 0 THEN [rcv EXCEPT !.raised = TRUE]
    ELSE IF msg[1] = 0
    THEN [long_msg |-> << >>, exp_frames_remaining |-> NoneExpected,
          delivered |-> Append(rcv.delivered,
                               Delivery(rcv.long_msg \o Tail(msg),
                                        IsValid(rcv.exp_frames_remaining, msg[1]))),
          raised |-> FALSE]
    ELSE [long_msg |-> rcv.long_msg \o Tail(msg),
          exp_frames_remaining |-> NextExpected(rcv.exp_frames_remaining, msg[1]),
          delivered |-> rcv.delivered, raised |-> FALSE]

\* the fragments a receiver is fed: a countdown byte and a payload, which may
\* itself begin with a zero byte; and the fragment of an empty Bytes field
MaxFragments == 4

Fragments ==
    { <<n>> \o y : n \in 0..3, y \in {<<CH_t>>, <<0, TERM>>} } \cup { << >> }

ReceiveCall(fragments) ==
    [fn |-> "receive", fragments |-> fragments, fed |-> 0, rcv |-> ReceiverInit]

\* the dispatch of the next S06 frame calls receiver.frame_callback
ReceiveFragment ==
    /\ call.fn = "receive"
    /\ call.fed < Len(call.fragments)
    /\ call' = [call EXCEPT !.fed = @ + 1,
                            !.rcv = FrameCallback(call.rcv, call.fragments[call.fed + 1])]
    /\ UNCHANGED <<threaded, kill_monitor, device_timeout, device_out,
                   response_container, msg_queue, callbacks, monitor, disp_pc,
                   caller, exec, nreads, nparsed, nstored, put_log, popped, invoked,
                   reg_log, done_log, unreg_log>>

NextReceiver == ReceiveFragment

InitReceiver ==
    /\ InitModule
    /\ threaded = FALSE
    /\ \E n \in 0..MaxFragments : \E fragments \in [1..n -> Fragments] :
          call = ReceiveCall(fragments)

SpecReceiver == InitReceiver /\ [][NextReceiver]_vars

\* broadcast(data) in the cooperative model, with no callback registered.
\* The payloads are the first bytes of 13, 26, 39, ...; the first is TERM.
MaxData == 4

Data(n) == [i \in 1..n |-> (13 * i) % 256]

\* self._max_frame_len = None
NoneLength == 0

\* frame_len = self._max_frame_len - 20
FrameOverhead == 20

\* the frame lengths the module knows or the device reports
FrameLengths == {21, 22, 23}

BroadcastCall(data, max_frame_len) ==
    [fn |-> "broadcast", data |-> data, max_frame_len |-> max_frame_len,
     pc |-> "start", frames |-> << >>, num_msg |-> 0, i |-> 0,
     response |-> Pending, sent |-> << >>, answered |-> << >>, ret |-> "none",
     rcv |-> ReceiverInit, fed |-> 0]

\* the while loop of _execute_command on frames nobody listens to: each is
\* taken off the list and _execute_callbacks finds no entry for its key
StoreAndDrain(rc, msgs) ==
    /\ response_container' = StoreAll(rc, msgs)
    /\ msg_queue' = msg_queue
    /\ put_log' = put_log \o Ids(msgs)
    /\ popped' = popped \o Ids(msgs)
    /\ done_log' = done_log \o [k \in 1..Len(msgs) |-> Completed(msgs[k], << >>, << >>)]
    /\ nparsed' = nparsed + Len(msgs)
    /\ nstored' = nstored + Len(msgs)

\* one whole _execute_command(command) of the cooperative model: the command
\* is sent, the slot is set to None, the read returns out, the frames of out
\* are stored and the queue is emptied; the slot is what the call returns
ExecuteCommandHere(command, out) ==
    /\ ~threaded
    /\ Len(msg_queue) = 0
    /\ device_out' = Append(device_out,
                            command.cmd \o Pack(command.args, c_format_dict[command.cmd]))
    /\ StoreAndDrain(ClearSlot(response_container, command.rsp),
                     WithIds(ScanAll(out), nparsed))
    /\ nreads' = IF Len(out) > 0 THEN nreads + 1 ELSE nreads
    /\ UNCHANGED <<threaded, kill_monitor, device_timeout, callbacks, monitor,
                   disp_pc, caller, exec, invoked, reg_log, unreg_log>>

\* what the device answers to C07: nothing, or R07 with a frame length
LengthReplies ==
    { << >> } \cup { WellFormed(K_R07, <<IntVal(n)>>).bytes : n \in FrameLengths }

\* what the device answers to C06: nothing, or R06
FrameReplies == { << >>, WellFormed(K_R06, << >>).bytes }

\* if self._max_frame_len is None: len_data = self.get_max_frame_length();
\* without a response the RuntimeError is built and not raised
BroadcastQuery(out) ==
    /\ call.fn = "broadcast"
    /\ call.pc = "start"
    /\ call.max_frame_len = NoneLength
    /\ ExecuteCommandHere(Command(K_C07, K_R07, << >>), out)
    /\ LET response == ReadSlot(response_container', K_R07)
       IN  call' = [call EXCEPT
                       !.pc = "plan",
                       !.max_frame_len = IF response.state = "payload"
                                         THEN response.vals[1].n ELSE NoneLength]

\* the frames of data: data[i : i + frame_len] for i in range(0, len(data), frame_len)
FramesOf(data, frame_len) ==
    [k \in 1..((Len(data) + frame_len - 1) \div frame_len) |->
        SubSeq(data, (k - 1) * frame_len + 1,
               IF k * frame_len < Len(data) THEN k * frame_len ELSE Len(data))]

\* num_msg = int(len(data) / frame_len) + 1
NumMsg(data, frame_len) == (Len(data) \div frame_len) + 1

\* frame_len, num_msg and frames: None - 20 raises TypeError
BroadcastPlan ==
    /\ call.fn = "broadcast"
    /\ \/ call.pc = "plan"
       \/ call.pc = "start" /\ call.max_frame_len # NoneLength
    /\ call' = IF call.max_frame_len = NoneLength
               THEN [call EXCEPT !.pc = "raised", !.ret = "TypeError"]
               ELSE [call EXCEPT
                        !.pc = "loop",
                        !.num_msg = NumMsg(call.data, call.max_frame_len - FrameOverhead),
                        !.frames = FramesOf(call.data, call.max_frame_len - FrameOverhead)]
    /\ UNCHANGED <<threaded, kill_monitor, device_timeout, device_out,
                   response_container, msg_queue, callbacks, monitor, disp_pc,
                   caller, exec, nreads, nparsed, nstored, put_log, popped, invoked,
                   reg_log, done_log, unreg_log>>

\* indexed_frame = struct.pack("<B", num_msg - i - 1) + frame
IndexedFrame(num_msg, i, frame) == <<num_msg - i - 1>> \o frame

\* one turn of the for loop: the frame is sent with C06 and response is bound
\* to what the command returns; struct.pack("<B", ...) raises above 255
BroadcastSendFrame(out) ==
    /\ call.fn = "broadcast"
    /\ call.pc = "loop"
    /\ call.i < Len(call.frames)
    /\ IF call.num_msg - call.i - 1 > 255
       THEN /\ out = << >>
            /\ call' = [call EXCEPT !.pc = "raised", !.ret = "struct.error"]
            /\ UNCHANGED <<threaded, kill_monitor, device_timeout, device_out,
                           response_container, msg_queue, callbacks, monitor, disp_pc,
                           caller, exec, nreads, nparsed, nstored, put_log, popped,
                           invoked, reg_log, done_log, unreg_log>>
       ELSE /\ ExecuteCommandHere(
                   Command(K_C06, K_R06,
                           <<BytesVal(IndexedFrame(call.num_msg, call.i,
                                                   call.frames[call.i + 1]))>>),
                   out)
            /\ call' = [call EXCEPT
                           !.i = @ + 1,
                           !.response = ReadSlot(response_container', K_R06),
                           !.sent = Append(@, IndexedFrame(call.num_msg, call.i,
                                                           call.frames[call.i + 1])),
                           !.answered = Append(@, Len(out) > 0)]

\* after the loop: if response is None: return False, else: return True;
\* response is not bound when the loop had no turn
BroadcastReturn ==
    /\ call.fn = "broadcast"
    /\ call.pc = "loop"
    /\ call.i = Len(call.frames)
    /\ call' = IF call.response = Pending
               THEN [call EXCEPT !.pc = "raised", !.ret = "UnboundLocalError"]
               ELSE [call EXCEPT !.pc = "returned",
                                 !.ret = IF call.response.state = "none"
                                         THEN "False" ELSE "True"]
    /\ UNCHANGED <<threaded, kill_monitor, device_timeout, device_out,
                   response_container, msg_queue, callbacks, monitor, disp_pc,
                   caller, exec, nreads, nparsed, nstored, put_log, popped, invoked,
                   reg_log, done_log, unreg_log>>

\* a fragment that was sent reaches the long-message receiver of another
\* module, in the order of sending
ReceiveSent ==
    /\ call.fn = "broadcast"
    /\ call.fed < Len(call.sent)
    /\ call' = [call EXCEPT !.fed = @ + 1,
                            !.rcv = FrameCallback(call.rcv, call.sent[call.fed + 1])]
    /\ UNCHANGED <<threaded, kill_monitor, device_timeout, device_out,
                   response_container, msg_queue, callbacks, monitor, disp_pc,
                   caller, exec, nreads, nparsed, nstored, put_log, popped, invoked,
                   reg_log, done_log, unreg_log>>

NextBroadcast ==
    \/ \E out \in LengthReplies : BroadcastQuery(out)
    \/ BroadcastPlan
    \/ \E out \in FrameReplies : BroadcastSendFrame(out)
    \/ BroadcastReturn
    \/ ReceiveSent

InitBroadcast ==
    /\ InitModule
    /\ threaded = FALSE
    /\ \E n \in 0..MaxData : \E max_frame_len \in {NoneLength} \cup FrameLengths :
          call = BroadcastCall(Data(n), max_frame_len)

SpecBroadcast == InitBroadcast /\ [][NextBroadcast]_vars

(***************************************************************************)
(* The scanning loop, one turn at a time.  The application, in the         *)
(* cooperative model and with no callback registered, calls                *)
(* wait_for_messages(); the read returns a chunk and the while loop of     *)
(* _read_and_unpack runs over it.                                          *)
(***************************************************************************)
MaxPieces == 2

\* the pieces a chunk is made of: frames, frames without their terminator,
\* a frame with a field more than its schema has, Bytes fields whose length
\* prefix is short or long, a key that is not in the table, and noise
Pieces ==
    { K_R00 \o <<TERM, LF>>,
      K_R00,
      K_R00 \o <<CH_x>>,
      K_R01 \o <<SEP, Digit(7), TERM, LF>>,
      K_R01 \o <<SEP, Digit(4), SEP, Digit(5), TERM, LF>>,
      K_R01 \o <<SEP, Digit(4)>>,
      K_S06 \o <<SEP, 1, 0, CH_x, CH_x, TERM, LF>>,
      K_S06 \o <<SEP, 5, 0, CH_x, TERM>>,
      K_R09 \o <<TERM, LF>>,
      <<CH_R, CH_S, CH_R>>,
      <<CH_x>> }

RECURSIVE Flatten(_)
Flatten(pieces) ==
    IF Len(pieces) = 0 THEN << >> ELSE Head(pieces) \o Flatten(Tail(pieces))

LoopCall(out) ==
    [fn |-> "loop", out |-> out, pc |-> "read", temp |-> << >>, turns |-> 0,
     frames |-> << >>]

\* history: a frame that unpack returned: its key and values, the buffer
\* unpack was given and the end offset it returned
Unpacked(key, vals, msg, end) == [key |-> key, vals |-> vals, msg |-> msg, end |-> end]

\* a variant of ScanTurn that leaves a key that is not in the table in temp
ScanTurnKeepsUnknownKey(temp) ==
    LET next_msg_idx == NextMsgIdx(temp)
    IN  IF next_msg_idx = -1
        THEN [stop |-> TRUE, found |-> FALSE, rest |-> temp]
        ELSE LET msg_key == Take(Drop(temp, next_msg_idx), 3)
                 temp1 == Drop(Drop(temp, next_msg_idx), 3)
             IN  IF msg_key \in DOMAIN r_format_dict
                 THEN LET u == Unpack(temp1, r_format_dict[msg_key])
                      IN  IF u.ok
                          THEN [stop |-> FALSE, found |-> TRUE,
                                rest |-> Drop(temp1, u.end + 1),
                                frame |-> Unpacked(msg_key, u.vals, temp1, u.end)]
                          ELSE [stop |-> FALSE, found |-> FALSE, rest |-> temp1]
                 ELSE [stop |-> FALSE, found |-> FALSE, rest |-> Drop(temp, next_msg_idx)]

\* one turn of the while loop on temp, len(temp) >= 4: the break, or temp
\* after the key was taken off it and, when unpack returned, after
\* temp = temp[end_idx + 1:]
ScanTurn(temp) ==
    LET next_msg_idx == NextMsgIdx(temp)
    IN  IF next_msg_idx = -1
        THEN [stop |-> TRUE, found |-> FALSE, rest |-> temp]
        ELSE LET msg_key == Take(Drop(temp, next_msg_idx), 3)
                 temp1 == Drop(Drop(temp, next_msg_idx), 3)
             IN  IF msg_key \in DOMAIN r_format_dict
                 THEN LET u == Unpack(temp1, r_format_dict[msg_key])
                      IN  IF u.ok
                          THEN [stop |-> FALSE, found |-> TRUE,
                                rest |-> Drop(temp1, u.end + 1),
                                frame |-> Unpacked(msg_key, u.vals, temp1, u.end)]
                          ELSE [stop |-> FALSE, found |-> FALSE, rest |-> temp1]
                 ELSE [stop |-> FALSE, found |-> FALSE, rest |-> temp1]

\* wait_for_messages() up to the while loop: self.device.timeout = timeout,
\* out = self._read(), temp = out
LoopRead ==
    /\ call.fn = "loop"
    /\ call.pc = "read"
    /\ ~threaded
    /\ device_timeout' = SelfTimeout
    /\ nreads' = IF Len(call.out) > 0 THEN nreads + 1 ELSE nreads
    /\ call' = [call EXCEPT !.pc = "loop", !.temp = call.out]
    /\ UNCHANGED <<threaded, kill_monitor, device_out, response_container, msg_queue,
                   callbacks, monitor, disp_pc, caller, exec, nparsed, nstored,
                   put_log, popped, invoked, reg_log, done_log, unreg_log>>

\* the turn t of the loop: a frame that unpack returned is stored in its
\* slot and appended to the queue
LoopTurned(t) ==
    /\ call' = [call EXCEPT
                   !.temp = t.rest,
                   !.turns = @ + 1,
                   !.pc = IF t.stop THEN "drain" ELSE "loop",
                   !.frames = IF t.found THEN Append(@, t.frame) ELSE @]
    /\ IF t.found
       THEN StoreAndPut(response_container,
                        <<Msg(t.frame.key, t.frame.vals, nparsed + 1)>>)
       ELSE UNCHANGED <<response_container, msg_queue, put_log, nparsed, nstored>>

\* while len(temp) >= 4: one turn
LoopTurn ==
    /\ call.fn = "loop"
    /\ call.pc = "loop"
    /\ Len(call.temp) >= 4
    /\ LoopTurned(ScanTurn(call.temp))
    /\ UNCHANGED <<threaded, kill_monitor, device_timeout, device_out, callbacks,
                   monitor, disp_pc, caller, exec, nreads, popped, invoked, reg_log,
                   done_log, unreg_log>>

\* the condition of the while is false
LoopEnd ==
    /\ call.fn = "loop"
    /\ call.pc = "loop"
    /\ Len(call.temp) < 4
    /\ call' = [call EXCEPT !.pc = "drain"]
    /\ UNCHANGED <<threaded, kill_monitor, device_timeout, device_out,
                   response_container, msg_queue, callbacks, monitor, disp_pc,
                   caller, exec, nreads, nparsed, nstored, put_log, popped, invoked,
                   reg_log, done_log, unreg_log>>

\* the rest of wait_for_messages: the queue is emptied, no callback being
\* registered, and self.device.timeout = old_timeout
LoopDrain ==
    /\ call.fn = "loop"
    /\ call.pc = "drain"
    /\ msg_queue' = << >>
    /\ popped' = popped \o Ids(msg_queue)
    /\ done_log' = done_log \o
                      [k \in 1..Len(msg_queue) |-> Completed(msg_queue[k], << >>, << >>)]
    /\ device_timeout' = SelfTimeout
    /\ call' = [call EXCEPT !.pc = "done"]
    /\ UNCHANGED <<threaded, kill_monitor, device_out, response_container, callbacks,
                   monitor, disp_pc, caller, exec, nreads, nparsed, nstored, put_log,
                   invoked, reg_log, unreg_log>>

NextLoop == LoopRead \/ LoopTurn \/ LoopEnd \/ LoopDrain

InitLoop ==
    /\ InitModule
    /\ threaded = FALSE
    /\ \E n \in 1..MaxPieces : \E pieces \in [1..n -> Pieces] :
          call = LoopCall(Flatten(pieces))

SpecLoop == InitLoop /\ [][NextLoop]_vars

\* WF_vars(LoopTurn) with ENABLED <<LoopTurn>>_vars written as the state
\* predicate it is equal to: the condition of the while
WeakFairnessOfLoopTurn ==
    \/ []<>(~(call.fn = "loop" /\ call.pc = "loop" /\ Len(call.temp) >= 4))
    \/ []<><<LoopTurn>>_vars

\* the thread that runs the loop is scheduled
FairSpecLoop ==
    /\ SpecLoop
    /\ WF_vars(LoopRead)
    /\ WeakFairnessOfLoopTurn
    /\ WF_vars(LoopEnd)
    /\ WF_vars(LoopDrain)

(***************************************************************************)
(* register_message_callback and unregister_message_callback.  The module  *)
(* keeps one LongMessageReceiver per function in self._receivers, under    *)
(* id(cb_function), and registers the receiver's frame_callback for S06.   *)
(* Receivers are numbered in the order of their construction, and the      *)
(* frame_callback of receiver n is written n in the registry.              *)
(***************************************************************************)
MaxMessageCalls == 4

\* the program registers and unregisters message callbacks
MessageCall ==
    [fn |-> "message", receivers |-> [f \in {} |-> 0], made |-> 0, n |-> 0,
     last |-> [op |-> "none", f |-> "", outcome |-> "returned"]]

\* register_callback(msg_key, cb) on the registry cbs
AfterRegister(cbs, msg_key, e) ==
    IF msg_key \in DOMAIN cbs
    THEN [cbs EXCEPT ![msg_key] = Append(@, e)]
    ELSE (msg_key :> <<e>>) @@ cbs

\* unregister_callback(msg_key, cb) on the registry cbs
AfterUnregister(cbs, msg_key, cb) ==
    IF msg_key \in DOMAIN cbs /\ FuncIndex(cbs[msg_key], cb) > 0
    THEN [cbs EXCEPT ![msg_key] = ListPop(@, FuncIndex(@, cb))]
    ELSE cbs

\* register_message_callback(cb_function)
RegisterMessageCallback(cb_function) ==
    /\ call.fn = "message"
    /\ call.n < MaxMessageCalls
    /\ LET receiver == call.made + 1
       IN  /\ call' = [call EXCEPT
                          !.receivers = (cb_function :> receiver) @@ @,
                          !.made = receiver,
                          !.n = @ + 1,
                          !.last = [op |-> "register", f |-> cb_function,
                                    outcome |-> "returned"]]
           /\ callbacks' = AfterRegister(callbacks, K_S06,
                                         [cb |-> receiver, reg |-> receiver])
    /\ UNCHANGED <<threaded, kill_monitor, device_timeout, device_out,
                   response_container, msg_queue, monitor, disp_pc, caller, exec,
                   nreads, nparsed, nstored, put_log, popped, invoked, reg_log,
                   done_log, unreg_log>>

\* unregister_message_callback(cb_function): after the print, the lookup
\* self._receivers[id(cb_function)] raises KeyError when the id is not there
UnregisterMessageCallback(cb_function) ==
    /\ call.fn = "message"
    /\ call.n < MaxMessageCalls
    /\ IF cb_function \in DOMAIN call.receivers
       THEN /\ call' = [call EXCEPT
                           !.n = @ + 1,
                           !.last = [op |-> "unregister", f |-> cb_function,
                                     outcome |-> "returned"]]
            /\ callbacks' = AfterUnregister(callbacks, K_S06,
                                            call.receivers[cb_function])
       ELSE /\ call' = [call EXCEPT
                           !.n = @ + 1,
                           !.last = [op |-> "unregister", f |-> cb_function,
                                     outcome |-> "KeyError"]]
            /\ callbacks' = callbacks
    /\ UNCHANGED <<threaded, kill_monitor, device_timeout, device_out,
                   response_container, msg_queue, monitor, disp_pc, caller, exec,
                   nreads, nparsed, nstored, put_log, popped, invoked, reg_log,
                   done_log, unreg_log>>

NextMessage ==
    \/ \E f \in Functions : RegisterMessageCallback(f)
    \/ \E f \in Functions : UnregisterMessageCallback(f)

InitMessage == InitModule /\ call = MessageCall

SpecMessage == InitMessage /\ [][NextMessage]_vars

(***************************************************************************)
(* Callbacks that do more than return, in the threaded model.  The         *)
(* application registers three functions: f returns, q calls get_id() and  *)
(* returns, r raises, all for the key R02.  The dispatcher thread runs     *)
(* them; a caller thread calls reset().  The lock of the condition         *)
(* self._response_condition is kept in call.lock ("free", "mon", or the    *)
(* thread that holds it) and the command of each thread in call.cmd.       *)
(***************************************************************************)
MaxCbRegister == 2
MaxCbReads == 1

CallbackFunctions == {"f", "q", "r"}
CommandThreads == {"disp", MainThread}
CommandOn(t) == IF t = "disp" THEN GetId ELSE Reset

\* no _execute_command has been called by the thread
CmdIdle ==
    [pc |-> "idle", rsp |-> << >>, result |-> Pending, timedout |-> FALSE,
     at |-> 0, puts |-> 0]

CallbacksCall ==
    [fn |-> "callbacks", lock |-> "free", cmd |-> [t \in CommandThreads |-> CmdIdle]]

\* the function thread t is inside, when exec[t].pc = "incb": its last call
Running(t) ==
    invoked[CHOOSE i \in 1..Len(invoked) :
               /\ invoked[i].thread = t
               /\ \A j \in (i + 1)..Len(invoked) : invoked[j].thread # t].cb

\* the thread may call _execute_command: q, once each time it is called, and
\* the caller thread, once
MayIssue(t) ==
    IF t = "disp"
    THEN /\ exec[t].pc = "incb"
         /\ Running(t) = "q"
         /\ call.cmd[t].pc \in {"idle", "returned"}
         /\ call.cmd[t].at # Len(invoked)
    ELSE call.cmd[t].pc = "idle"

\* _execute_command up to self._send(msg)
ExecuteCommandSend(t) ==
    /\ call.fn = "callbacks"
    /\ MayIssue(t)
    /\ device_out' = Append(device_out,
                            CommandOn(t).cmd \o
                            Pack(CommandOn(t).args, c_format_dict[CommandOn(t).cmd]))
    /\ call' = [call EXCEPT !.cmd[t] =
                   [CmdIdle EXCEPT !.pc = "sent", !.rsp = CommandOn(t).rsp,
                                   !.at = Len(invoked), !.puts = Len(put_log)]]
    /\ UNCHANGED <<threaded, kill_monitor, device_timeout, response_container,
                   msg_queue, callbacks, monitor, disp_pc, caller, exec, nreads,
                   nparsed, nstored, put_log, popped, invoked, reg_log, done_log,
                   unreg_log>>

\* with self._response_condition: the lock is acquired, on entry and when
\* wait() returns
ConditionAcquire(t) ==
    /\ call.fn = "callbacks"
    /\ call.cmd[t].pc \in {"sent", "woken"}
    /\ call.lock = "free"
    /\ call' = [call EXCEPT !.lock = t]
    /\ UNCHANGED <<threaded, kill_monitor, device_timeout, device_out,
                   response_container, msg_queue, callbacks, monitor, disp_pc,
                   caller, exec, nreads, nparsed, nstored, put_log, popped, invoked,
                   reg_log, done_log, unreg_log>>

\* a variant of ConditionWait that keeps the lock while it waits
ConditionWaitHoldingLock(t) ==
    /\ call.fn = "callbacks"
    /\ call.lock = t
    /\ call.cmd[t].pc = "sent"
    /\ response_container' = ClearSlot(response_container, call.cmd[t].rsp)
    /\ call' = [call EXCEPT !.cmd[t].pc = "waiting"]
    /\ UNCHANGED <<threaded, kill_monitor, device_timeout, device_out, msg_queue,
                   callbacks, monitor, disp_pc, caller, exec, nreads, nparsed,
                   nstored, put_log, popped, invoked, reg_log, done_log, unreg_log>>

\* self._response_container[response_key] = None
\* self._response_condition.wait(self.timeout), which releases the lock
ConditionWait(t) ==
    /\ call.fn = "callbacks"
    /\ call.lock = t
    /\ call.cmd[t].pc = "sent"
    /\ response_container' = ClearSlot(response_container, call.cmd[t].rsp)
    /\ call' = [call EXCEPT !.cmd[t].pc = "waiting", !.lock = "free"]
    /\ UNCHANGED <<threaded, kill_monitor, device_timeout, device_out, msg_queue,
                   callbacks, monitor, disp_pc, caller, exec, nreads, nparsed,
                   nstored, put_log, popped, invoked, reg_log, done_log, unreg_log>>

\* the timeout of the wait elapses
ConditionTimeout(t) ==
    /\ call.fn = "callbacks"
    /\ call.cmd[t].pc = "waiting"
    /\ call' = [call EXCEPT !.cmd[t].pc = "woken", !.cmd[t].timedout = TRUE]
    /\ UNCHANGED <<threaded, kill_monitor, device_timeout, device_out,
                   response_container, msg_queue, callbacks, monitor, disp_pc,
                   caller, exec, nreads, nparsed, nstored, put_log, popped, invoked,
                   reg_log, done_log, unreg_log>>

\* response = self._response_container[response_key], the lock is released
\* and _execute_command returns
ExecuteCommandReturn(t) ==
    /\ call.fn = "callbacks"
    /\ call.lock = t
    /\ call.cmd[t].pc = "woken"
    /\ call' = [call EXCEPT
                   !.cmd[t].pc = "returned",
                   !.cmd[t].result = ReadSlot(response_container, call.cmd[t].rsp),
                   !.lock = "free"]
    /\ UNCHANGED <<threaded, kill_monitor, device_timeout, device_out,
                   response_container, msg_queue, callbacks, monitor, disp_pc,
                   caller, exec, nreads, nparsed, nstored, put_log, popped, invoked,
                   reg_log, done_log, unreg_log>>

\* _read_and_unpack: with self._response_condition, the lock is acquired
MonitorAcquire ==
    /\ call.fn = "callbacks"
    /\ monitor.pc = "store"
    /\ call.lock = "free"
    /\ call' = [call EXCEPT !.lock = "mon"]
    /\ UNCHANGED <<threaded, kill_monitor, device_timeout, device_out,
                   response_container, msg_queue, callbacks, monitor, disp_pc,
                   caller, exec, nreads, nparsed, nstored, put_log, popped, invoked,
                   reg_log, done_log, unreg_log>>

\* the slot is written, notify() wakes one of the waiting threads, if there
\* is one, and the lock is released
MonitorStore ==
    /\ call.fn = "callbacks"
    /\ call.lock = "mon"
    /\ response_container' = StoreFrame(response_container, monitor.msg)
    /\ nstored' = nstored + 1
    /\ LET waiters == {t \in CommandThreads : call.cmd[t].pc = "waiting"}
       IN  IF waiters = {}
           THEN call' = [call EXCEPT !.lock = "free"]
           ELSE \E w \in waiters :
                   call' = [call EXCEPT !.lock = "free", !.cmd[w].pc = "woken"]
    /\ monitor' = [monitor EXCEPT !.pc = "put"]
    /\ UNCHANGED <<threaded, kill_monitor, device_timeout, device_out, msg_queue,
                   callbacks, disp_pc, caller, exec, nreads, nparsed, put_log,
                   popped, invoked, reg_log, done_log, unreg_log>>

\* the function the thread is inside returns: f at once, q when its
\* get_id() has returned
CbReturns(t) ==
    /\ call.fn = "callbacks"
    /\ exec[t].pc = "incb"
    /\ Running(t) # "r"
    /\ Running(t) = "q" =>
          (call.cmd[t].pc = "returned" /\ call.cmd[t].at = Len(invoked))
    /\ CbNext(t)

\* the function the thread is inside raises: nothing catches the exception
\* in _execute_callbacks nor in _cb_dispatcher, and the thread ends
CbRaises(t) ==
    /\ call.fn = "callbacks"
    /\ exec[t].pc = "incb"
    /\ Running(t) = "r"
    /\ exec' = [exec EXCEPT ![t] = ExecIdle]
    /\ disp_pc' = "raised"
    /\ UNCHANGED <<call, threaded, kill_monitor, device_timeout, device_out,
                   response_container, msg_queue, callbacks, monitor, caller,
                   nreads, nparsed, nstored, put_log, popped, invoked, reg_log,
                   done_log, unreg_log>>

NextCallbacks ==
    \/ \E i \in {0} \cup ThreadedChunks : (i > 0 => nreads < MaxCbReads) /\ MonRead(i)
    \/ MonitorAcquire
    \/ MonitorStore
    \/ MonPut
    \/ MonExit
    \/ Close
    \/ DispGet
    \/ CbReturns("disp")
    \/ CbRaises("disp")
    \/ \E f \in CallbackFunctions : RegisterUpTo(MaxCbRegister, K_R02, f)
    \/ \E t \in CommandThreads : ExecuteCommandSend(t)
    \/ \E t \in CommandThreads : ConditionAcquire(t)
    \/ \E t \in CommandThreads : ConditionWait(t)
    \/ \E t \in CommandThreads : ConditionTimeout(t)
    \/ \E t \in CommandThreads : ExecuteCommandReturn(t)

InitCallbacks == InitModule /\ threaded = TRUE /\ call = CallbacksCall

SpecCallbacks == InitCallbacks /\ [][NextCallbacks]_vars

\* every thread that can take a step of its command takes it: the threads
\* run, and wait(self.timeout) has a finite timeout
FairSpecCallbacks ==
    /\ SpecCallbacks
    /\ \A t \in CommandThreads :
          /\ WF_vars(ConditionAcquire(t))
          /\ WF_vars(ConditionWait(t))
          /\ WF_vars(ConditionTimeout(t))
          /\ WF_vars(ExecuteCommandReturn(t))
    /\ WF_vars(MonitorAcquire)
    /\ WF_vars(MonitorStore)
    /\ WeakFairnessOfMonPut

(***************************************************************************)
(* Callbacks that call the module, in the cooperative model.  The          *)
(* application registers three functions: f returns, q calls get_id() and  *)
(* returns, w calls wait_for_messages() and returns.  The calls nest on    *)
(* the one thread: call.stack holds, innermost last, the                   *)
(* _execute_callbacks that are under way, each with the position of its    *)
(* for loop and with what the function it is inside is doing (inner).      *)
(***************************************************************************)
MaxNestedRegister == 2
MaxNestedCalls == 1

NestedFunctions == {"f", "q", "w"}

NestedCall == [fn |-> "nested", pc |-> "idle", ncalls |-> 0, stack |-> << >>]

\* the innermost _execute_callbacks, and the function it is inside
Top == call.stack[Len(call.stack)]
TopRunning == CallbackList(Top.msg.key)[Top.idx].cb
SetTop(e) == [call EXCEPT !.stack[Len(call.stack)] = e]

\* the thread is in a loop `while len(self._msg_queue) > 0`: that of the
\* application's call, or that of the call made by the innermost function
Draining ==
    IF Len(call.stack) = 0 THEN call.pc = "drain" ELSE Top.inner = "drain"

\* the application calls wait_for_messages(): up to the end of its
\* _read_and_unpack
NestedWaitForMessages(i) ==
    /\ call.fn = "nested"
    /\ call.pc = "idle"
    /\ call.ncalls < MaxNestedCalls
    /\ i \in ReadableChunks
    /\ device_timeout' = SelfTimeout
    /\ ReadAndUnpackHere(response_container, i)
    /\ call' = [call EXCEPT !.pc = "drain", !.ncalls = @ + 1]
    /\ UNCHANGED <<threaded, kill_monitor, device_out, callbacks, monitor, disp_pc,
                   caller, exec, popped, invoked, reg_log, done_log, unreg_log>>

\* msg_key, field_values = self._msg_queue.pop(0) and the entry of
\* _execute_callbacks, which calls the first function of the list
NestedPop ==
    /\ call.fn = "nested"
    /\ Draining
    /\ Len(msg_queue) > 0
    /\ LET g == ListPopFirst(msg_queue)
           cb_list == CallbackList(g.msg.key)
       IN  /\ msg_queue' = g.rest
           /\ popped' = Append(popped, g.msg.id)
           /\ IF Len(cb_list) > 0
              THEN /\ call' = [call EXCEPT !.stack = Append(@,
                                  [msg |-> g.msg, idx |-> 1, snap |-> cb_list,
                                   inner |-> "none"])]
                   /\ invoked' = Append(invoked,
                                        Invocation(MainThread, g.msg, cb_list[1]))
                   /\ done_log' = done_log
              ELSE /\ call' = call
                   /\ invoked' = invoked
                   /\ done_log' = Append(done_log, Completed(g.msg, << >>, << >>))
    /\ UNCHANGED <<threaded, kill_monitor, device_timeout, device_out,
                   response_container, callbacks, monitor, disp_pc, caller, exec,
                   nreads, nparsed, nstored, put_log, reg_log, unreg_log>>

\* the function q calls get_id(): the command is written, the slot cleared,
\* and _read_and_unpack run; the function w calls wait_for_messages()
NestedInner(i) ==
    /\ call.fn = "nested"
    /\ Len(call.stack) > 0
    /\ Top.inner = "none"
    /\ TopRunning \in {"q", "w"}
    /\ i \in ReadableChunks
    /\ IF TopRunning = "q"
       THEN /\ device_out' = Append(device_out,
                                    GetId.cmd \o Pack(GetId.args, c_format_dict[GetId.cmd]))
            /\ device_timeout' = device_timeout
            /\ ReadAndUnpackHere(ClearSlot(response_container, GetId.rsp), i)
       ELSE /\ device_out' = device_out
            /\ device_timeout' = SelfTimeout
            /\ ReadAndUnpackHere(response_container, i)
    /\ call' = SetTop([Top EXCEPT !.inner = "drain"])
    /\ UNCHANGED <<threaded, kill_monitor, callbacks, monitor, disp_pc, caller, exec,
                   popped, invoked, reg_log, done_log, unreg_log>>

\* the queue is empty: the call made by the innermost function returns
NestedInnerDone ==
    /\ call.fn = "nested"
    /\ Len(call.stack) > 0
    /\ Top.inner = "drain"
    /\ Len(msg_queue) = 0
    /\ device_timeout' = IF TopRunning = "w" THEN SelfTimeout ELSE device_timeout
    /\ call' = SetTop([Top EXCEPT !.inner = "returned"])
    /\ UNCHANGED <<threaded, kill_monitor, device_out, response_container, msg_queue,
                   callbacks, monitor, disp_pc, caller, exec, nreads, nparsed,
                   nstored, put_log, popped, invoked, reg_log, done_log, unreg_log>>

\* the innermost function returns, and its for loop goes on or ends
NestedCbReturn ==
    /\ call.fn = "nested"
    /\ Len(call.stack) > 0
    /\ IF TopRunning = "f" THEN Top.inner = "none" ELSE Top.inner = "returned"
    /\ LET cb_list == CallbackList(Top.msg.key)
       IN  IF Top.idx < Len(cb_list)
           THEN /\ invoked' = Append(invoked,
                                     Invocation(MainThread, Top.msg, cb_list[Top.idx + 1]))
                /\ call' = SetTop([Top EXCEPT !.idx = @ + 1, !.inner = "none"])
                /\ done_log' = done_log
           ELSE /\ invoked' = invoked
                /\ call' = [call EXCEPT !.stack = SubSeq(@, 1, Len(@) - 1)]
                /\ done_log' = Append(done_log, Completed(Top.msg, Top.snap, cb_list))
    /\ UNCHANGED <<threaded, kill_monitor, device_timeout, device_out,
                   response_container, msg_queue, callbacks, monitor, disp_pc,
                   caller, exec, nreads, nparsed, nstored, put_log, popped, reg_log,
                   unreg_log>>

\* the queue is empty: the application's wait_for_messages() returns
NestedDone ==
    /\ call.fn = "nested"
    /\ Len(call.stack) = 0
    /\ call.pc = "drain"
    /\ Len(msg_queue) = 0
    /\ device_timeout' = SelfTimeout
    /\ call' = [call EXCEPT !.pc = "idle"]
    /\ UNCHANGED <<threaded, kill_monitor, device_out, response_container, msg_queue,
                   callbacks, monitor, disp_pc, caller, exec, nreads, nparsed,
                   nstored, put_log, popped, invoked, reg_log, done_log, unreg_log>>

NextNested ==
    \/ \E k \in RegistryKeys, f \in NestedFunctions :
          call.pc = "idle" /\ call.ncalls = 0 /\ RegisterUpTo(MaxNestedRegister, k, f)
    \/ \E i \in 0..Len(ChunkTable) : NestedWaitForMessages(i)
    \/ NestedPop
    \/ \E i \in 0..Len(ChunkTable) : NestedInner(i)
    \/ NestedInnerDone
    \/ NestedCbReturn
    \/ NestedDone

InitNested == InitModule /\ threaded = FALSE /\ call = NestedCall

SpecNested == InitNested /\ [][NextNested]_vars

(***************************************************************************)
(* Properties of the command and response path.                            *)
(***************************************************************************)
\* C1: in the threaded model, a call whose response frame was parsed after
\* its command bytes were written and before its timeout elapsed returns the
\* decoded fields of a frame, not None.
C1_ParsedInTimeIsReturned ==
    \A c \in Callers :
        (threaded /\ caller[c].op = "cmd" /\ caller[c].pc = "done" /\ caller[c].matched)
            => caller[c].result.state = "payload"

\* C2: in the threaded model a call returns None only after its timeout has
\* elapsed, and a wait is ended before its timeout only by a frame of the
\* response key the call waits for.
C2_NoneOnlyAfterTimeout ==
    \A c \in Callers :
        (threaded /\ caller[c].op = "cmd") =>
            /\ (caller[c].pc = "done" /\ caller[c].result.state = "none")
                  => caller[c].timedout
            /\ (caller[c].pc \in {"woken", "done"} /\ ~caller[c].timedout)
                  => caller[c].wokenBy = caller[c].rsp

\* C3: whenever the bytes of a command have been written to the transport,
\* the slot of its response key has already been set to None by that call.
C3_ClearedBeforeWritten ==
    \A c \in Callers :
        (caller[c].op = "cmd" /\ caller[c].written) => caller[c].cleared

\* C4: a call of _execute_command that has begun returns, in the threaded
\* and in the cooperative model; what it returns is None or the fields of a
\* frame, never an exception, and it is None when no frame of the response
\* key was stored during the call.
C4_CommandReturns ==
    /\ [](\A c \in Callers :
             (caller[c].op = "cmd" /\ caller[c].pc = "done") =>
                 /\ caller[c].result.state \in {"none", "payload"}
                 /\ ~caller[c].seen => caller[c].result.state = "none")
    /\ (caller[MainThread].op = "cmd" /\ caller[MainThread].pc # "done")
          ~> (caller[MainThread].op = "cmd" /\ caller[MainThread].pc = "done")

\* a call has timed out with nothing stored for its key, and has returned None
C4_Witness ==
    /\ threaded
    /\ caller[MainThread].op = "cmd" /\ caller[MainThread].pc = "done"
    /\ caller[MainThread].timedout /\ ~caller[MainThread].seen
    /\ caller[MainThread].result.state = "none"

\* C5: the fields a call returns are those of a frame that was stored after
\* the call set the slot to None, never of a frame stored before.
C5_NoStalePayload ==
    \A c \in Callers :
        (caller[c].op = "cmd" /\ caller[c].result.state = "payload")
            => caller[c].result.id > caller[c].clearedAt

\* the slot held the fields of an earlier frame when the call set it to None,
\* and the call has returned the fields of a later frame
C5_Witness ==
    \E c \in Callers :
        /\ caller[c].op = "cmd" /\ caller[c].pc = "done"
        /\ caller[c].stale
        /\ caller[c].result.state = "payload"

\* C6: in the cooperative model a call makes one read, and returns the fields
\* of the last well-formed frame of its response key in the chunk that was
\* read, or None when the chunk has no well-formed frame of that key.
C6_CoopReturnsLastWellFormed ==
    \A c \in Callers :
        (~threaded /\ caller[c].op = "cmd" /\ caller[c].pc \in {"drain", "done"}) =>
            LET items == IF caller[c].chunk = 0 THEN << >> ELSE ChunkTable[caller[c].chunk]
                hits  == {k \in 1..Len(items) :
                             items[k].wf /\ items[k].key = caller[c].rsp}
            IN  /\ caller[c].reads = 1
                /\ IF hits = {}
                   THEN caller[c].result.state = "none"
                   ELSE /\ caller[c].result.state = "payload"
                        /\ \E k \in hits :
                              /\ \A j \in hits : j <= k
                              /\ caller[c].result.vals = items[k].vals

(***************************************************************************)
(* Properties of the event queue and of the dispatch of callbacks.         *)
(***************************************************************************)
\* C7: the frames put on the event queue are the frames parsed, each once and
\* in the order of parsing; only the frame the monitor is storing or putting
\* is not on it yet.
C7_ParsedFramesEnqueuedOnce ==
    LET inflight == IF monitor.pc \in {"store", "put"} THEN 1 ELSE 0
    IN  /\ Len(put_log) = nparsed - inflight
        /\ \A i \in 1..Len(put_log) : put_log[i] = i

\* two frames are on the queue's history with no callback registered and no
\* call waiting
C7_Witness ==
    /\ Len(put_log) >= 2
    /\ Len(put_log) = nparsed
    /\ DOMAIN callbacks = {}
    /\ \A c \in Callers : caller[c].pc = "idle"

\* C8: frames are taken from the queue in the order of parsing, callbacks of
\* different frames are invoked in the order of the frames, and callbacks of
\* one frame in the order of registration.
C8_DispatchInOrder ==
    /\ \A i, j \in 1..Len(popped) : i < j => popped[i] < popped[j]
    /\ \A i, j \in 1..Len(invoked) :
          i < j =>
             \/ invoked[i].id < invoked[j].id
             \/ /\ invoked[i].id = invoked[j].id
                /\ invoked[i].reg < invoked[j].reg

\* two callbacks were invoked for one frame and then one for a later frame
C8_Witness ==
    \E i, j, k \in 1..Len(invoked) :
        /\ i < j /\ j < k
        /\ invoked[i].id = invoked[j].id
        /\ invoked[j].id < invoked[k].id

\* C9: at most one thread is inside a callback.
C9_OneCallbackAtATime ==
    Cardinality({t \in Threads : exec[t].pc = "incb"}) <= 1

\* the dispatcher is inside a callback while a caller thread is inside a
\* command, waiting for its response, and more frames are on the queue
C9_Witness ==
    /\ threaded
    /\ exec["disp"].pc = "incb"
    /\ \E c \in Callers : caller[c].op = "cmd" /\ caller[c].pc = "waiting"
    /\ Len(msg_queue) > 0

\* C10: a callback is invoked only for frames of the key it was registered
\* for, and never twice for one frame; when the dispatch of a frame is
\* complete, each callback that was registered for the key of the frame from
\* the beginning to the end of the dispatch has been invoked once for it, and
\* nothing has been invoked for a frame whose key had no callback.
C10_InvokedForOwnKeyOnce ==
    /\ \A i \in 1..Len(invoked) :
          /\ reg_log[invoked[i].reg].key = invoked[i].key
          /\ reg_log[invoked[i].reg].cb = invoked[i].cb
          /\ \A j \in 1..Len(invoked) :
                (invoked[j].id = invoked[i].id /\ invoked[j].reg = invoked[i].reg)
                   => j = i
    /\ \A d \in 1..Len(done_log) :
          /\ \A k \in 1..Len(done_log[d].snap) :
                (\E m \in 1..Len(done_log[d].final) :
                    done_log[d].final[m].reg = done_log[d].snap[k].reg)
                   => \E i \in 1..Len(invoked) :
                         /\ invoked[i].id = done_log[d].id
                         /\ invoked[i].reg = done_log[d].snap[k].reg
          /\ done_log[d].snap = << >> =>
                \A i \in 1..Len(invoked) : invoked[i].id # done_log[d].id

\* C11: unregister_callback(key, f) removes exactly the first registration of
\* f under the key and leaves every other registration, and their order,
\* as they were; a frame taken off the queue after the call never invokes
\* the registration that was removed; when f is not registered under the
\* key the registry is left as it was (the call returns, it raises nothing).
C11_UnregisterRemovesFirst ==
    /\ [](\A n \in 1..Len(unreg_log) : \A m \in 1..Len(invoked) :
            /\ unreg_log[n].reg > 0
            /\ \E p \in 1..Len(popped) :
                  popped[p] = invoked[m].id /\ p > unreg_log[n].at
            => invoked[m].reg # unreg_log[n].reg)
    /\ [][Len(unreg_log') > Len(unreg_log) =>
            LET u == unreg_log'[Len(unreg_log')]
                before == CallbackList(u.key)
                after == IF u.key \in DOMAIN callbacks'
                         THEN callbacks'[u.key] ELSE << >>
            IN  /\ Len(unreg_log') = Len(unreg_log) + 1
                /\ DOMAIN callbacks' = DOMAIN callbacks
                /\ \A k \in DOMAIN callbacks : k # u.key => callbacks'[k] = callbacks[k]
                /\ IF \E i \in 1..Len(before) : before[i].cb = u.cb
                   THEN \E i \in 1..Len(before) :
                           /\ before[i].cb = u.cb
                           /\ \A j \in 1..(i - 1) : before[j].cb # u.cb
                           /\ u.reg = before[i].reg
                           /\ Len(after) = Len(before) - 1
                           /\ \A j \in 1..(i - 1) : after[j] = before[j]
                           /\ \A j \in i..Len(after) : after[j] = before[j + 1]
                   ELSE /\ callbacks' = callbacks
                        /\ u.reg = 0]_vars

\* an unregister_callback call removed the first of two registrations of a
\* function, two registrations stayed in the list, a frame of the key was
\* dispatched afterwards and invoked one of them; and another call found its
\* function not registered
C11_Witness ==
    /\ \E n \in 1..Len(unreg_log) : unreg_log[n].reg = 0
    /\ \E n \in 1..Len(unreg_log) :
          /\ unreg_log[n].reg > 0
          /\ \E r \in 1..Len(reg_log) :
                /\ r > unreg_log[n].reg
                /\ reg_log[r] = reg_log[unreg_log[n].reg]
          /\ Len(CallbackList(unreg_log[n].key)) = 2
          /\ \E m \in 1..Len(invoked) : \E p \in 1..Len(popped) :
                /\ invoked[m].key = unreg_log[n].key
                /\ popped[p] = invoked[m].id
                /\ p > unreg_log[n].at

(***************************************************************************)
(* Properties of the frame scanner.                                        *)
(***************************************************************************)
\* the frames (key and values) of a sequence of messages or of items
Frames(msgs) == [i \in 1..Len(msgs) |-> [key |-> msgs[i].key, vals |-> msgs[i].vals]]

AllWellFormed(items) == \A i \in 1..Len(items) : items[i].wf

\* the whole stream has been returned by the first read
ReadWhole ==
    call.fn = "scan" /\ call.reads >= 1 /\ call.cut = Len(ItemBytes(call.items))

\* the slot of each key holds the values of the last frame of the key
SlotsHoldLast(items) ==
    \A i \in 1..Len(items) :
        (\A j \in (i + 1)..Len(items) : items[j].key # items[i].key) =>
            /\ response_container[items[i].key].state = "payload"
            /\ response_container[items[i].key].vals = items[i].vals

\* C12: one read that returns several well-formed frames of known keys, each
\* terminated, yields all of them: each is decoded, written to the slot of
\* its key and put on the queue, in the order of the frames in the chunk.
C12_AllFramesOfChunk ==
    (ReadWhole /\ AllWellFormed(call.items)) =>
        /\ Frames(call.out) = Frames(call.items)
        /\ Ids(call.out) = put_log
        /\ SlotsHoldLast(call.items)

\* C13: a stream of well-formed frames cut at any byte offset and returned
\* by two reads in a row yields the frames that one read of the whole stream
\* yields, in the same order.
C13_SplitStreamSameFrames ==
    (call.fn = "scan" /\ call.reads = 2 /\ AllWellFormed(call.items)) =>
        Frames(call.out) = ScanAll(ItemBytes(call.items))

\* the items of a stream that are not candidates whose decoding fails
RECURSIVE WithoutFailing(_)
WithoutFailing(items) ==
    IF Len(items) = 0 THEN << >>
    ELSE (IF Head(items) \in FailingCandidates THEN << >> ELSE <<Head(items)>>)
         \o WithoutFailing(Tail(items))

\* the slots hold what the frames of out left in them, and nothing else
SlotsAreOf(out) ==
    \A k \in DOMAIN response_container :
        IF \E i \in 1..Len(out) : out[i].key = k
        THEN \E i \in 1..Len(out) :
                /\ out[i].key = k
                /\ \A j \in (i + 1)..Len(out) : out[j].key # k
                /\ response_container[k] = Payload(out[i].vals, out[i].id)
        ELSE response_container[k] = Missing

\* no frame of the items has a Float field
NoFloat(items) ==
    \A i \in 1..Len(items) : \A j \in 1..Len(items[i].vals) : items[i].vals[j].t # "Float"

\* C14: a candidate frame whose decoding fails (an Int that is not a number,
\* a missing field, a Bool span that is not one byte, no delimiter) writes no
\* slot and is not put on the queue, the read returns without an exception,
\* and the frames around it in the chunk are decoded as they are without it.
C14_FailedFrameIsDropped ==
    (ReadWhole /\ \A i \in 1..Len(call.items) :
                     call.items[i] \in FailingCandidates \cup ScanFrames) =>
        /\ Frames(call.out) = ScanAll(ItemBytes(WithoutFailing(call.items)))
        /\ NoFloat(call.items) =>
              Frames(call.out) = Frames(WithoutFailing(call.items))
        /\ Ids(call.out) = put_log
        /\ SlotsAreOf(call.out)

\* a chunk of a failing candidate and then a well-formed frame of another
\* key has been read: the frame is decoded, the candidate's slot is untouched
C14_Witness ==
    /\ ReadWhole
    /\ Len(call.items) = 2
    /\ call.items[1] \in FailingCandidates
    /\ call.items[2].wf
    /\ Frames(call.out) = Frames(<<call.items[2]>>)
    /\ response_container[K_R01] = Missing
    /\ response_container[call.items[2].key].state = "payload"

\* C15: a well-formed frame is decoded wherever it starts in the chunk: the
\* scanner skips leading bytes that hold no key of the schema table (noise,
\* the tail of a partial frame) and decodes the frame that follows them.
C15_FrameAfterNoiseIsDecoded ==
    (/\ ReadWhole
     /\ Len(call.items) = 2
     /\ call.items[1] \in Noise
     /\ call.items[2].wf
     /\ NoFloat(call.items)) =>
        Frames(call.out) = Frames(<<call.items[2]>>)

\* the items of a stream that are not frames of keys outside the table
RECURSIVE WithoutUnknown(_)
WithoutUnknown(items) ==
    IF Len(items) = 0 THEN << >>
    ELSE (IF Head(items) \in UnknownKeyFrames THEN << >> ELSE <<Head(items)>>)
         \o WithoutUnknown(Tail(items))

\* C16: every frame written to a slot or put on the queue has a key of the
\* schema table of responses; a 3-byte span that is not a key of the table
\* causes no slot update, no enqueue and no callback invocation, and the
\* read returns (no exception): the chunk is decoded as it is without it.
C16_OnlyKnownKeys ==
    call.fn = "scan" =>
        /\ \A i \in 1..Len(call.out) : call.out[i].key \in DOMAIN r_format_dict
        /\ \A i \in 1..Len(msg_queue) : msg_queue[i].key \in DOMAIN r_format_dict
        /\ \A i \in 1..Len(invoked) : invoked[i].key \in DOMAIN r_format_dict
        /\ DOMAIN response_container = DOMAIN r_format_dict
        /\ Ids(call.out) = put_log
        /\ SlotsAreOf(call.out)
        /\ (ReadWhole /\ \A i \in 1..Len(call.items) :
                            call.items[i] \in UnknownKeyFrames \cup ScanFrames) =>
              Frames(call.out) = ScanAll(ItemBytes(WithoutUnknown(call.items)))

\* callbacks are registered under R09 and under R01; a chunk of a frame of
\* the key R09, not in the table, and a frame of R01 has been read and
\* dispatched: the R01 frame alone was decoded and only its callback ran
C16_Witness ==
    /\ ReadWhole
    /\ Len(call.items) = 2
    /\ call.items[1].bytes = K_R09 \o <<SEP, Digit(4), TERM, LF>>
    /\ call.items[2] = WellFormed(K_R01, <<IntVal(32)>>)
    /\ Len(CallbackList(K_R09)) = 1
    /\ Len(CallbackList(K_R01)) = 1
    /\ Frames(call.out) = Frames(<<call.items[2]>>)
    /\ Len(invoked) = 1
    /\ caller[MainThread].pc = "idle"

(***************************************************************************)
(* Properties of the packer and of the field codec.                        *)
(***************************************************************************)
\* the offset in the written bytes of the separator of argument i: the key,
\* and a separator and an encoding for each argument before it
RECURSIVE SeparatorOffset(_, _, _)
SeparatorOffset(args, types, i) ==
    IF i = 1 THEN 3
    ELSE SeparatorOffset(args, types, i - 1) + 1
            + Len(FieldPack(types[i - 1], args[i - 1]))

\* the bytes w are the key, then for each argument in order the separator
\* and the argument's encoding, then the terminator
WrittenAs(w, command) ==
    LET args == command.args
        types == c_format_dict[command.cmd]
        n == Len(args)
        end == IF n = 0 THEN 3
               ELSE SeparatorOffset(args, types, n) + 1 + Len(FieldPack(types[n], args[n]))
    IN  /\ Len(w) = end + 1
        /\ SubSeq(w, 1, 3) = command.cmd
        /\ w[Len(w)] = TERM
        /\ \A i \in 1..n :
              LET o == SeparatorOffset(args, types, i)
              IN  /\ w[o + 1] = SEP
                  /\ SubSeq(w, o + 2, o + 1 + Len(FieldPack(types[i], args[i])))
                        = FieldPack(types[i], args[i])

\* C17: each command call writes to the transport once, and what it writes
\* is the 3-byte command key, then for each argument in order the separator
\* and the argument's encoding under the command schema, then the
\* terminator; with an empty schema, the key and the terminator.
C17_CommandBytes ==
    call.fn = "cmd" =>
        /\ Len(device_out) = caller[MainThread].ncalls
        /\ \A k \in 1..Len(device_out) : WrittenAs(device_out[k], call.command)
        /\ \A k \in 1..Len(device_out) :
              Len(call.command.args) = 0 => device_out[k] = call.command.cmd \o <<TERM>>

\* do_tests has been called with five arguments and has returned, and
\* toggle_passive has been called twice in the cooperative model
C17_Witness ==
    /\ call.fn = "cmd"
    /\ caller[MainThread].pc = "done"
    /\ \/ call.command.cmd = K_C03 /\ Len(device_out) = 1 /\ threaded
       \/ call.command.cmd = K_C04 /\ Len(device_out) = 2 /\ ~threaded

\* C18: for every schema over Int, Bool, Float, String and Bytes and every
\* list of values that matches it, unpack(pack(values, schema), schema)
\* returns the values, and the end offset it reports is at the terminator.
C18_UnpackOfPack ==
    (call.fn = "codec" /\ call.step = "unpacked") =>
        /\ call.ret.ok
        /\ call.ret.vals = call.field_values
        /\ call.ret.end = Len(call.msg) - 1
        /\ call.msg[call.ret.end + 1] = TERM

\* C19: decoding a Bool field gives False for the single byte '0' and True
\* for the single byte '1', and fails for any other content, a span that is
\* not one byte long included.
C19_BoolDecode ==
    (call.fn = "bool" /\ call.step = "unpacked") =>
        LET text == SubSeq(call.msg, 1, Len(call.msg) - 1)
        IN  IF text = <<CH_0>> THEN call.ret = Decoded(BoolVal(FALSE), 1)
            ELSE IF text = <<Digit(1)>> THEN call.ret = Decoded(BoolVal(TRUE), 1)
            ELSE ~call.ret.ok

\* C20: a Float field is decoded from exactly its 4 bytes, without a scan
\* for delimiters: unpacking the packed bytes of one Float gives the Float
\* back and ends on the terminator after the 4 bytes, also when one of the
\* bytes is the separator or the terminator.
C20_FloatDecodeFourBytes ==
    (/\ call.fn = "codec"
     /\ call.step = "unpacked"
     /\ call.field_types = <<"Float">>) =>
        /\ Len(call.msg) = 6
        /\ call.ret = [ok |-> TRUE, vals |-> call.field_values, end |-> 5]

\* C21: a Bytes field whose payload holds separator or terminator bytes is
\* decoded to the declared number of payload bytes when the length prefix
\* matches, and the fields and the frames after it are decoded from the byte
\* after its trailing delimiter: the values come back, and the end offset is
\* at the terminator of the message, whatever follows it in the buffer.
C21_BytesByLength ==
    (call.fn = "codec" /\ call.step = "unpacked" /\ "rest" \in DOMAIN call) =>
        /\ call.ret.ok
        /\ call.ret.vals = call.field_values
        /\ call.ret.end = Len(call.msg) - 1
        /\ (call.msg \o call.rest)[call.ret.end + 1] = TERM
        /\ Drop(call.msg \o call.rest, call.ret.end + 1) = call.rest

\* a message of a Bytes field whose payload holds the terminator and the
\* separator, and of an Int field after it, followed by a frame in the
\* buffer, has been unpacked
C21_Witness ==
    /\ call.fn = "codec"
    /\ call.step = "unpacked"
    /\ call.field_types = <<"Bytes", "Int">>
    /\ call.field_values = <<BytesVal(<<TERM, SEP, 0>>), IntVal(345)>>
    /\ call.rest = <<LF>> \o WellFormed(K_R01, <<IntVal(7)>>).bytes
    /\ call.ret.ok

\* the fragments fed so far that carry a countdown
Fed == SelectSeq(Take(call.fragments, call.fed), LAMBDA f : Len(f) > 0)

\* the sessions of a fragment sequence: each ends at a countdown of zero
RECURSIVE SessionsOf(_, _)
SessionsOf(frs, session) ==
    IF Len(frs) = 0 THEN << >>
    ELSE IF Head(frs)[1] = 0
    THEN <<Append(session, Head(frs))>> \o SessionsOf(Tail(frs), << >>)
    ELSE SessionsOf(Tail(frs), Append(session, Head(frs)))

\* the payloads of the fragments of a session, in order of arrival
RECURSIVE Concatenation(_)
Concatenation(session) ==
    IF Len(session) = 0 THEN << >>
    ELSE Tail(Head(session)) \o Concatenation(Tail(session))

\* no fragment of the session after the first broke the countdown
Unbroken(session) ==
    \A j \in 2..Len(session) : session[j][1] = session[j - 1][1] - 1

\* C24: the long-message callback is invoked exactly when a fragment with
\* countdown 0 arrives, with the concatenation, in arrival order, of the
\* payloads of all fragments since the previous delivery; after a delivery
\* the buffer is empty and the expected counter is unset.
C24_DeliveryAtZero ==
    call.fn = "receive" =>
        /\ Len(call.rcv.delivered) = Len(SessionsOf(Fed, << >>))
        /\ \A k \in 1..Len(call.rcv.delivered) :
              call.rcv.delivered[k].msg = Concatenation(SessionsOf(Fed, << >>)[k])
        /\ (Len(Fed) > 0 /\ Fed[Len(Fed)][1] = 0) =>
              /\ call.rcv.long_msg = << >>
              /\ call.rcv.exp_frames_remaining = NoneExpected

\* two deliveries, the second of a session of two fragments after which the
\* buffer is empty
C24_Witness ==
    /\ call.fn = "receive"
    /\ call.fed = 4
    /\ Len(call.rcv.delivered) = 2
    /\ Len(SessionsOf(Fed, << >>)[2]) = 2
    /\ call.rcv.delivered[2].msg = <<CH_t, 0, TERM>>
    /\ call.rcv.long_msg = << >>

\* C25: the validity flag of a delivery is false when a fragment of its
\* session after the first had a countdown that was not one less than that
\* of the fragment before it, and true when no fragment broke the countdown.
C25_FlagTellsBrokenCountdown ==
    call.fn = "receive" =>
        \A k \in 1..Len(call.rcv.delivered) :
            (k <= Len(SessionsOf(Fed, << >>))) =>
                (call.rcv.delivered[k].is_valid <=> Unbroken(SessionsOf(Fed, << >>)[k]))

\* the C06 commands written to the device, in order
SentCommands == SelectSeq(device_out, LAMBDA m : Take(m, 3) = K_C06)

\* C22: for every non-empty payload and every max frame length above the
\* overhead of 20 bytes, broadcast sends the payload as n chunks of at most
\* max_frame_len - 20 bytes, in payload order, each as one C06 command, and
\* prefixes chunk i (from 0) with the byte n - i - 1, n being the number of
\* chunks sent, so that the last chunk carries the countdown 0.
C22_ChunksAndCountdown ==
    (call.fn = "broadcast" /\ call.pc = "returned" /\ Len(call.data) > 0) =>
        /\ Len(call.sent) > 0
        /\ Concatenation(call.sent) = call.data
        /\ \A k \in 1..Len(call.sent) :
              /\ Len(call.sent[k]) - 1 <= call.max_frame_len - FrameOverhead
              /\ call.sent[k][1] = Len(call.sent) - (k - 1) - 1
        /\ SentCommands =
              [k \in 1..Len(call.sent) |->
                  K_C06 \o Pack(<<BytesVal(call.sent[k])>>, c_format_dict[K_C06])]
        /\ call.sent[Len(call.sent)][1] = 0

\* C23: broadcast returns True if and only if the round trip of every chunk
\* succeeded: it returns False when the response to any chunk, not only to
\* the last one, is absent.
C23_TrueIffEveryChunkAnswered ==
    (call.fn = "broadcast" /\ call.pc = "returned") =>
        (call.ret = "True" <=> \A k \in 1..Len(call.answered) : call.answered[k])

\* C26: for every non-empty payload and every max frame length above 20, the
\* fragments that broadcast sends, fed in order to a long-message receiver,
\* cause exactly one delivery, of the payload, with the flag true.
C26_BroadcastThenReceive ==
    (/\ call.fn = "broadcast" /\ call.pc = "returned"
     /\ Len(call.data) > 0 /\ call.fed = Len(call.sent)) =>
        call.rcv.delivered = <<Delivery(call.data, TRUE)>>

\* C29: when the max frame length is not known and the query C07 gets no
\* response, broadcast returns False: it raises no exception and sends no
\* C06 fragment.
C29_NoLengthReturnsFalse ==
    (/\ call.fn = "broadcast" /\ call.max_frame_len = NoneLength
     /\ call.pc \notin {"start", "plan"}) =>
        /\ call.ret = "False"
        /\ Len(SentCommands) = 0

\* C30: broadcast of an empty payload with the max frame length known
\* returns a boolean and raises no exception.
C30_EmptyPayloadReturnsBoolean ==
    (/\ call.fn = "broadcast" /\ Len(call.data) = 0
     /\ call.max_frame_len # NoneLength /\ call.pc \in {"returned", "raised"}) =>
        call.ret \in {"True", "False"}

\* the reader has left its loop, or is about to put the sentinel
ReaderLeaving == monitor.pc \in {"exit", "exited"}

\* the sentinels on the queue
Sentinels == {k \in 1..Len(msg_queue) : msg_queue[k] = NoneMsg}

\* the final read is the one that found the flag set, no read follows it,
\* the sentinel is the last thing the reader enqueues, and the dispatcher
\* ends on it after it has dispatched every frame enqueued
ClosedInOrder ==
    /\ monitor.time_to_exit => (kill_monitor /\ monitor.pc # "read")
    /\ ReaderLeaving => monitor.time_to_exit
    /\ Sentinels \subseteq {Len(msg_queue)}
    /\ (Sentinels # {}) => (monitor.pc = "exited" /\ disp_pc = "get")
    /\ (monitor.pc = "exited") => (Sentinels # {} \/ disp_pc = "exited")
    /\ disp_pc = "exited" =>
          /\ monitor.pc = "exited"
          /\ msg_queue = << >>
          /\ popped = put_log
          /\ exec["disp"].pc = "idle"
          /\ [k \in 1..Len(done_log) |-> done_log[k].id] = put_log

\* nothing is read after the final read and nothing is enqueued after the
\* sentinel
NothingAfterTheEnd ==
    /\ monitor.time_to_exit => nreads' = nreads
    /\ monitor.pc = "exited" =>
          (Len(msg_queue') <= Len(msg_queue) /\ put_log' = put_log)

\* C27: in the threaded model, after close() the reader performs one final
\* read-and-parse, then enqueues exactly one sentinel and exits; the
\* dispatcher dispatches every frame enqueued before the sentinel and then
\* exits; both threads eventually terminate, and no frame is enqueued after
\* the sentinel.
C27_CloseEndsBothThreads ==
    /\ kill_monitor ~> (monitor.pc = "exited" /\ disp_pc = "exited")
    /\ []ClosedInOrder
    /\ [][NothingAfterTheEnd]_vars

\* both threads have ended after frames were enqueued and dispatched to a
\* callback
C27_Witness ==
    /\ threaded
    /\ kill_monitor
    /\ monitor.pc = "exited"
    /\ disp_pc = "exited"
    /\ Len(put_log) >= 2
    /\ Len(invoked) >= 1

\* no call of the main thread is under way
BetweenCalls == caller[MainThread].pc \in {"idle", "done"}

\* between the calls the queue is empty and every frame parsed has been
\* dispatched; a callback runs on the main thread, inside a call
DispatchedWithinTheCall ==
    /\ BetweenCalls =>
          /\ msg_queue = << >>
          /\ popped = put_log
          /\ Len(put_log) = nparsed
          /\ [k \in 1..Len(done_log) |-> done_log[k].id] = put_log
    /\ \A k \in 1..Len(invoked) : invoked[k].thread = MainThread
    /\ \A t \in Threads :
          exec[t].pc = "incb" => (t = MainThread /\ caller[MainThread].pc = "drain")

\* a callback is called, or returns, only inside a call
CallbacksOnlyWithinACall ==
    (invoked' # invoked \/ done_log' # done_log \/ exec' # exec) =>
        (~BetweenCalls \/ ~BetweenCalls')

\* C28: in the cooperative model, when wait_for_messages or a command call
\* returns, the event queue is empty and the callbacks of every frame parsed
\* during that call have already run on the caller's thread; callbacks never
\* run outside such a call.
C28_CooperativeDispatch ==
    /\ [](~threaded => DispatchedWithinTheCall)
    /\ [][~threaded => CallbacksOnlyWithinACall]_vars

\* a command call has returned after a read of two frames, each dispatched to
\* a callback
C28_Witness ==
    /\ ~threaded
    /\ caller[MainThread].pc = "done"
    /\ Len(put_log) >= 2
    /\ Len(invoked) >= 2
    /\ \E k \in 1..Len(invoked) : invoked[k].id = put_log[Len(put_log)]

\* the frames of the loop that were unpacked under an empty schema
EmptySchemaFrames ==
    {k \in 1..Len(call.frames) : Len(r_format_dict[call.frames[k].key]) = 0}

\* C32: for a key with an empty schema, unpack succeeds only if a terminator
\* is present in the buffer after the key, and the end offset is the index
\* of that terminator; without a terminator the frame is not parsed: no slot
\* is written and nothing is enqueued.
C32_EmptySchemaNeedsTerminator ==
    call.fn = "loop" =>
        \A k \in EmptySchemaFrames :
            /\ call.frames[k].end >= 0
            /\ call.frames[k].msg[call.frames[k].end + 1] = TERM

\* C33: unpack succeeds only if, after the last field of the schema, the
\* cursor is on the terminator: a frame with more fields than its schema, or
\* whose Bytes length prefix does not end on a delimiter, is rejected.
C33_EndsOnTerminator ==
    call.fn = "loop" =>
        \A k \in (1..Len(call.frames)) \ EmptySchemaFrames :
            call.frames[k].msg[call.frames[k].end + 1] = TERM

\* C38: the scanning loop of _read_and_unpack ends for every finite chunk:
\* each turn either stops the loop or strictly shortens the buffer, also
\* when unpack fails or returns the end offset -1.
C38_LoopTerminates ==
    /\ (call.fn = "loop") ~> (call.pc = "done")
    /\ [](call.fn = "loop" => 3 * call.turns + Len(call.temp) <= Len(call.out) + 3)
    /\ [][(call.fn = "loop" /\ call.pc = "loop" /\ call'.pc = "loop"
             /\ call'.turns # call.turns)
          => Len(call'.temp) < Len(call.temp)]_vars

\* the loop has ended after a turn in which unpack returned -1 and a turn
\* in which unpack failed
C38_Witness ==
    /\ call.fn = "loop"
    /\ call.pc = "done"
    /\ call.turns = 2
    /\ Len(call.frames) = 1
    /\ call.frames[1].end = -1

\* the invocations of the registration reg for the frame id
InvocationsOf(id, reg) ==
    {i \in 1..Len(invoked) : invoked[i].id = id /\ invoked[i].reg = reg}

\* C34: in the threaded model, registering or unregistering a callback on a
\* caller thread while the dispatcher invokes the callbacks of a frame never
\* causes a callback that stays registered throughout to be skipped or to be
\* invoked twice for that frame.
C34_StableCallbackOncePerFrame ==
    threaded =>
        \A d \in 1..Len(done_log) : \A k \in 1..Len(done_log[d].snap) :
            (\E m \in 1..Len(done_log[d].final) :
                done_log[d].final[m].reg = done_log[d].snap[k].reg)
            => Cardinality(InvocationsOf(done_log[d].id, done_log[d].snap[k].reg)) = 1

\* C39: in the cooperative model wait_for_messages(t) leaves the transport's
\* read timeout as it was before the call.  Only wait_for_messages writes
\* self.device.timeout, so with no call in progress it is the value the
\* constructor gave it.
C39_TimeoutRestored ==
    (~threaded /\ ~(caller[MainThread].pc = "drain" /\ caller[MainThread].op = "wfm"))
        => device_timeout = DeviceTimeoutDefault

\* C40: unregister_message_callback(f) for a function f that was never
\* registered is a no-op: it raises no exception and changes neither the
\* registry nor the receivers.
C40_UnregisterUnknownIsNoOp ==
    [][(/\ call.fn = "message"
        /\ call'.n = call.n + 1
        /\ call'.last.op = "unregister"
        /\ call'.last.f \notin DOMAIN call.receivers)
       => (/\ call'.last.outcome = "returned"
           /\ callbacks' = callbacks
           /\ call'.receivers = call.receivers)]_vars

\* a frame of the key caller c awaits was stored while c waited, and c was
\* left waiting
LeftWaiting(c) ==
    /\ caller[c].pc = "waiting"
    /\ response_container[caller[c].rsp].state = "payload"

\* C31: in the threaded model with two callers awaiting different response
\* keys, every parsed frame wakes all waiting callers: the caller whose key
\* matches returns its payload as soon as the frame is parsed, not at its
\* timeout, and the other caller keeps waiting for its own key.
C31_EveryFrameWakesAllWaiters ==
    threaded =>
        \A c \in Callers : caller[c].op = "cmd" =>
            /\ ~LeftWaiting(c)
            /\ (caller[c].pc = "done" /\ ~caller[c].timedout)
                  => caller[c].result.state = "payload"

\* C37: in the threaded model a callback that raises does not stop the
\* dispatching: the dispatcher thread goes on taking frames off the queue
\* and leaves its loop only when it takes the sentinel.
C37_RaiseDoesNotStopDispatcher ==
    threaded => (disp_pc # "get" => disp_pc = "exited")

\* thread t is blocked on the lock of the response condition
BlockedOnLock(t) ==
    /\ call.lock \notin {"free", t}
    /\ IF t = "mon" THEN monitor.pc = "store"
                    ELSE call.cmd[t].pc \in {"sent", "woken"}

\* a thread that waits on the condition does not hold its lock, the holder
\* of the lock is a thread that can go on, and the reader, the dispatcher
\* and a caller are never all three blocked on the lock
LockNeverStuck ==
    /\ \A t \in CommandThreads :
          /\ call.cmd[t].pc = "waiting" => call.lock # t
          /\ call.lock = t => call.cmd[t].pc \in {"sent", "woken"}
    /\ call.lock = "mon" => monitor.pc = "store"
    /\ ~(BlockedOnLock("mon") /\ BlockedOnLock("disp") /\ BlockedOnLock(MainThread))

\* C36: in the threaded model a callback running on the dispatcher thread may
\* issue a command: the reader keeps parsing and enqueuing while the command
\* waits, the command returns, with a payload or with None, within its
\* timeout, and no state has the reader, the dispatcher and a caller all
\* blocked on the response lock.
C36_CommandFromCallbackReturns ==
    /\ [](call.fn = "callbacks" => LockNeverStuck)
    /\ (call.fn = "callbacks" /\ call.cmd["disp"].pc = "sent")
          ~> (call.cmd["disp"].pc = "returned"
              /\ call.cmd["disp"].result.state \in {"payload", "none"})
    /\ (call.fn = "callbacks" /\ nparsed > Len(put_log)) ~> (nparsed = Len(put_log))

\* a callback's command is waiting and a frame parsed since it was sent has
\* been put on the queue
C36_Witness ==
    /\ call.fn = "callbacks"
    /\ call.cmd["disp"].pc = "waiting"
    /\ Len(put_log) > call.cmd["disp"].puts

\* the frames that have been taken off the queue and whose dispatch is not
\* complete
UnderDispatch ==
    {popped[i] : i \in 1..Len(popped)} \ {done_log[d].id : d \in 1..Len(done_log)}

\* every frame put on the queue so far was taken off it once
TakenOnce ==
    /\ \A i, j \in 1..Len(popped) : popped[i] = popped[j] => i = j
    /\ (call.pc = "idle" /\ call.ncalls > 0) =>
          /\ {popped[i] : i \in 1..Len(popped)} = {put_log[i] : i \in 1..Len(put_log)}
          /\ UnderDispatch = {}

\* C35: in the cooperative model, when a callback itself issues a command or
\* calls wait_for_messages, the callbacks registered for a frame all complete
\* before any callback of a later frame starts, and every queued frame is
\* dispatched exactly once.
C35_FrameAtATime ==
    (call.fn = "nested") =>
        /\ Cardinality(UnderDispatch) <= 1
        /\ \A i, j \in 1..Len(invoked) : i < j => invoked[i].id <= invoked[j].id
        /\ TakenOnce
====
